---- MODULE Spec2Model ----
(***************************************************************************)
(* Model of the analysis run of k8s-log-analyzer (main in analyze.js):     *)
(*   lib/parsers/error-log-parser.js  classifyLine, detectLevel,           *)
(*                                    parseErrorLog, parseAllErrorLogs     *)
(*   lib/parsers/metrics-parser.js    parseMetricsFile, parseAllMetrics    *)
(*   lib/parsers/db-debug-parser.js   parseDbDebug                         *)
(*   lib/parsers/parser-utils.js      stripAnsi, extractPodInfo,           *)
(*                                    extractDeploymentName, parseCpu,     *)
(*                                    parseMemory, parsePercent            *)
(*   lib/utils/time-utils.js          parseIsoTimestamp, isInTimeRange,    *)
(*                                    bucketByInterval                     *)
(*   lib/parsers/pod-log-parser.js    parsePodLogs                         *)
(*   lib/analyzers                    classifyErrors, analyzeMetrics,      *)
(*                                    analyzeDbConnections                 *)
(*   lib/analyzers/issue-detector.js  detectIssues,                        *)
(*                                    generateRecommendations              *)
(*                                                                         *)
(* A log line is modelled by what the parser's regular expressions can     *)
(* tell about it: whether it is a record line (POD_LINE_RE), which pod and *)
(* timestamp string it carries, and, for its message, which level keywords *)
(* and which ERROR_PATTERNS it matches.  A line of a metrics file is its   *)
(* kind and its whitespace-separated fields, a line of db_debug.log its    *)
(* kind and its tab-separated fields.  A Date is the one-element sequence  *)
(* of its millisecond value and null is the empty sequence, so that        *)
(* JavaScript's coercions (null becomes 0 in < > and ||) are computed and  *)
(* not assumed.                                                            *)
(*                                                                         *)
(* The steps of main follow one another: the error logs, the metrics       *)
(* files, db_debug.log, then the three analyses, the issues and the        *)
(* recommendations.  Each specification is a run of main over archives of  *)
(* one shape; parsePodLogs is run on its own over one pod log.             *)
(***************************************************************************)
EXTENDS Integers, Sequences, FiniteSets, TLC

\* ------------------------------------------------------------------ bounds
\* The cap of parseAllErrorLogs and the cap on the per-file minimum, scaled
\* down from the source's 200000 and 5000 (error-log-parser.js:153, :212):
\* the budgeter's arithmetic is the same at every scale.  Lines 227 and
\* 241-243 compute in IEEE doubles; for operands below 30, which covers these
\* bounds, Math.floor of the double equals the exact integer quotient used
\* below.  For larger operands the double can fall one short of an exact
\* whole quotient (Math.floor((30 / 44) * 22) is 14), never above it.
MAX_EVENTS == 4
MIN_PER_FILE_CAP == 1
\* number of file paths handed to parseAllErrorLogs, lines in all files
MaxFiles == 2
MaxTotalLines == 6
\* lines of the single file of the line-level specification
MaxParseLines == 3
\* The bucket width of classifyErrors' timeline, scaled down from the
\* source's 5 * 60 * 1000 ms (error-classifier.js:53) to the instants 1 and 2
\* of the model's timestamps.
FIVE_MIN_MS == 2
\* The cap on longRunningQueries and the length a query text is cut to,
\* scaled down from the source's 20 and 200 (db-analyzer, lines 175 and 130).
MAX_LONG_QUERIES == 2
QUERY_CHARS == 2
\* metrics files of the archive
MaxMetricsFiles == 3
\* seconds above which a connection is long-running (the source's value)
LONG_RUNNING_SECS == 60

MaxMetricsLines == 3

MaxDbLines == 5

MaxQueryLines == 4

MaxIssueLines == 2
MaxIssueFiles == 2

MaxFrameLines == 4

MaxPodLines == 3

\* ------------------------------------------------------ JavaScript values
NULL == <<>>
Date(ms) == <<ms>>
\* ToNumber of a Date-or-null: Date -> getTime(), null -> 0
ToNumber(v) == IF v = NULL THEN 0 ELSE v[1]
Truthy(v) == v # NULL
Min2(a, b) == IF a <= b THEN a ELSE b
\* obj[k] = (obj[k] || 0) + n
Bump(obj, k, n) ==
    IF k \in DOMAIN obj THEN [obj EXCEPT ![k] = @ + n] ELSE obj @@ (k :> n)
EmptyObj == [k \in {} |-> 0]

RECURSIVE SumSeq(_)
SumSeq(s) == IF s = <<>> THEN 0 ELSE Head(s) + SumSeq(Tail(s))

\* ------------------------------------------------------------- time-utils
\* A timestamp string that POD_LINE_RE accepts is either a valid ISO instant
\* or digits that new Date() rejects (month 13, hour 99, ...).
TsStr(valid, ms) == [valid |-> valid, ms |-> ms]
parseIsoTimestamp(str) == IF str.valid THEN Date(str.ms) ELSE NULL

\* (the end of the range not tested)
isInTimeRangeNoEnd(timestamp, startTime, endTime) ==
    LET ts == ToNumber(timestamp) IN
    IF Truthy(startTime) /\ ts < ToNumber(startTime) THEN FALSE ELSE TRUE

\* startTime / endTime: NULL when the option is absent, else Date(ms) of the
\* given instant.
isInTimeRange(timestamp, startTime, endTime) ==
    LET ts == ToNumber(timestamp) IN
    IF Truthy(startTime) /\ ts < ToNumber(startTime) THEN FALSE
    ELSE IF Truthy(endTime) /\ ts > ToNumber(endTime) THEN FALSE
    ELSE TRUE

\* ----------------------------------------------------------- parser-utils
\* A message text: tagged = level words that occur only inside a bracket tag
\* ("[error", "[warn", "[debug": removed by ANSI_RE), kw = level words left in
\* the text, hits = names of the ERROR_PATTERNS whose regex matches the
\* stripped text, at = the stripped text matches /^\s+at\s/.
stripAnsi(text) == [text EXCEPT !.tagged = {}]

\* A pod name is the sequence of its '-'-separated parts.
extractPodInfo(podName) ==
    IF Len(podName) < 3
        THEN [pod |-> podName, deployment |-> podName]
        ELSE [pod |-> podName, deployment |-> SubSeq(podName, 1, Len(podName) - 2)]

extractDeploymentName(podName) ==
    LET deployment == extractPodInfo(podName).deployment IN
    IF deployment = <<>> \/ deployment = <<"">> THEN podName ELSE deployment

\* ------------------------------------------------------- error-log-parser
\* The names of ERROR_PATTERNS, in table order.
ERROR_PATTERNS ==
    << "redis_connection", "redis_error", "rasa_timeout", "mysql_warning",
       "mysql_error", "nlu_fallback", "tensorflow_warning", "oom_killed",
       "http_5xx", "http_4xx", "connection_reset", "dns_error",
       "timeout_generic", "crash_restart", "memory_pressure", "disk_pressure",
       "auth_error", "rate_limit", "slow_query", "lock_failure", "kafka_error",
       "unhandled_exception", "stack_trace" >>

\* pattern.regex.test(clean)
RegexTest(name, clean) == name \in clean.hits

\* (no fallback category)
classifyLineNoFallback(message) ==
    LET clean == stripAnsi(message) IN
    SelectSeq(ERROR_PATTERNS, LAMBDA name : RegexTest(name, clean))

classifyLine(message) ==
    LET clean == stripAnsi(message)
        categories == SelectSeq(ERROR_PATTERNS, LAMBDA name : RegexTest(name, clean))
    IN IF Len(categories) > 0 THEN categories ELSE << "uncategorized" >>

\* RASA_BOT_RE is tried before BOT_ID_RE; each capture is NULL when the
\* expression does not match, else the one-element sequence of the id.
extractBotId(message) ==
    IF message.rasaBot # NULL THEN message.rasaBot
    ELSE IF message.botId # NULL THEN message.botId
    ELSE NULL

detectLevel(message) ==
    LET words == message.kw \cup message.tagged IN
    IF "error" \in words THEN "error"
    ELSE IF "warn" \in words THEN "warning"
    ELSE IF "debug" \in words THEN "debug"
    ELSE "info"

\* const stats = {...} of parseErrorLog
NewStats ==
    [ totalLines |-> 0, errorCount |-> 0, warningCount |-> 0,
      byPod |-> EmptyObj, byDeployment |-> EmptyObj, byCategory |-> EmptyObj,
      firstTimestamp |-> NULL, lastTimestamp |-> NULL ]

\* The local state of one parseErrorLog call: events, stats and the pending
\* slot stackBuffer (<<>> for null, <<event>> when a record is held).
\* filePath is the number of the file in filePaths.
NewParse(filePath) ==
    [ filePath |-> filePath, events |-> <<>>, stats |-> NewStats, stackBuffer |-> <<>> ]

\* (the line counter left alone)
countLineForgotten(ps) == ps

\* stats.totalLines++
countLine(ps) == [ps EXCEPT !.stats.totalLines = @ + 1]

\* A line that POD_LINE_RE does not match: appended to the pending event's
\* stackTrace when it matches /^\s+at\s/, dropped otherwise.  stackTrace is
\* the sequence of the numbers of the lines appended (<<>> for null).
continuationLine(ps, line) ==
    IF ps.stackBuffer # <<>> /\ line.at
        THEN [ps EXCEPT !.stackBuffer[1].stackTrace = Append(@, ps.stats.totalLines)]
        ELSE ps

\* (the pending record cleared without being pushed)
flushStackBufferLosing(ps) == [ps EXCEPT !.stackBuffer = <<>>]

\* if (stackBuffer) { events.push(stackBuffer); stackBuffer = null; }
flushStackBuffer(ps) ==
    IF ps.stackBuffer # <<>>
        THEN [ps EXCEPT !.events = Append(@, ps.stackBuffer[1]), !.stackBuffer = <<>>]
        ELSE ps

\* first/last timestamp tracking; < and > coerce null to 0
trackFirst(first, timestamp) ==
    IF ~Truthy(first) \/ ToNumber(timestamp) < ToNumber(first) THEN timestamp ELSE first

trackLast(last, timestamp) ==
    IF ~Truthy(last) \/ ToNumber(timestamp) > ToNumber(last) THEN timestamp ELSE last

RECURSIVE bumpAll(_, _)
bumpAll(obj, keys) ==
    IF keys = <<>> THEN obj ELSE bumpAll(Bump(obj, Head(keys), 1), Tail(keys))

\* The event built from a record line.  file and lineNo say where the event
\* comes from: the file being parsed and the number of the line in it (the
\* value of stats.totalLines when the line is read).
makeEvent(ps, line, timestamp, message) ==
    [ file |-> ps.filePath,
      lineNo |-> ps.stats.totalLines,
      timestamp |-> timestamp,
      pod |-> line.pod,
      deployment |-> extractDeploymentName(line.pod),
      level |-> detectLevel(message),
      message |-> message,
      categories |-> classifyLine(message),
      botId |-> extractBotId(message),
      stackTrace |-> <<>> ]

\* statistics of a retained record
recordStats(stats, timestamp, event) ==
    [ stats EXCEPT
        !.firstTimestamp = trackFirst(@, timestamp),
        !.lastTimestamp = trackLast(@, timestamp),
        !.errorCount = IF event.level = "error" THEN @ + 1 ELSE @,
        !.warningCount = IF event.level = "warning" THEN @ + 1 ELSE @,
        !.byPod = Bump(@, event.pod, 1),
        !.byDeployment = Bump(@, event.deployment, 1),
        !.byCategory = bumpAll(@, event.categories) ]

\* if (/^\s+at\s/.test(message)) stackBuffer = event; else events.push(event);
holdOrPush(ps, event) ==
    IF event.message.at
        THEN [ps EXCEPT !.stackBuffer = << event >>]
        ELSE [ps EXCEPT !.events = Append(@, event)]

\* the time filter of a record line
filteredOut(timestamp, startTime, endTime) ==
    (Truthy(startTime) \/ Truthy(endTime))
        /\ ~isInTimeRange(timestamp, startTime, endTime)

\* A line that POD_LINE_RE matches.
recordLine(ps, line, startTime, endTime) ==
    LET flushed == flushStackBuffer(ps)
        timestamp == parseIsoTimestamp(line.tsStr)
        message == stripAnsi(line.rawMessage)
        event == makeEvent(flushed, line, timestamp, message)
    IN IF filteredOut(timestamp, startTime, endTime)
        THEN flushed
        ELSE holdOrPush([flushed EXCEPT !.stats = recordStats(@, timestamp, event)], event)

\* One iteration of the for-await loop of parseErrorLog.
parseLine(ps, line, startTime, endTime) ==
    LET counted == countLine(ps) IN
    IF ~line.rec
        THEN continuationLine(counted, line)
        ELSE recordLine(counted, line, startTime, endTime)

\* if (stackBuffer) events.push(stackBuffer); return { events, stats };
endOfParse(ps) == flushStackBuffer(ps)

\* ------------------------------------------------------ parseAllErrorLogs
\* const combinedStats = {...}
NewCombinedStats(fileCount) ==
    [ totalLines |-> 0, errorCount |-> 0, warningCount |-> 0,
      byPod |-> EmptyObj, byDeployment |-> EmptyObj, byCategory |-> EmptyObj,
      firstTimestamp |-> NULL, lastTimestamp |-> NULL,
      fileCount |-> fileCount, files |-> <<>> ]

\* for (const [k, v] of Object.entries(from)) into[k] = (into[k] || 0) + v
mergeCounts(into, from) ==
    [ k \in DOMAIN into \cup DOMAIN from |->
        (IF k \in DOMAIN into THEN into[k] ELSE 0)
      + (IF k \in DOMAIN from THEN from[k] ELSE 0) ]

mergeFirst(combined, first) ==
    IF ~Truthy(combined) \/ (Truthy(first) /\ ToNumber(first) < ToNumber(combined))
        THEN first ELSE combined

mergeLast(combined, last) ==
    IF ~Truthy(combined) \/ (Truthy(last) /\ ToNumber(last) > ToNumber(combined))
        THEN last ELSE combined

\* The body of the Phase 1 loop after parseErrorLog has returned.
mergeStats(combined, filePath, stats) ==
    [ combined EXCEPT
        !.totalLines = @ + stats.totalLines,
        !.errorCount = @ + stats.errorCount,
        !.warningCount = @ + stats.warningCount,
        !.files = Append(@, [path |-> filePath, lines |-> stats.totalLines]),
        !.byPod = mergeCounts(@, stats.byPod),
        !.byDeployment = mergeCounts(@, stats.byDeployment),
        !.byCategory = mergeCounts(@, stats.byCategory),
        !.firstTimestamp = mergeFirst(@, stats.firstTimestamp),
        !.lastTimestamp = mergeLast(@, stats.lastTimestamp) ]

\* Phase 2.  counts[i] = fileResults[i].events.length.
EventCounts(results) == [i \in DOMAIN results |-> Len(results[i].events)]

\* Math.min(5000, Math.floor(MAX_EVENTS / filePaths.length))
MIN_PER_FILE(fileCount) ==
    IF fileCount = 0 THEN MIN_PER_FILE_CAP
    ELSE Min2(MIN_PER_FILE_CAP, MAX_EVENTS \div fileCount)

\* (first pass that guarantees nothing)
firstPassNoMinimum(counts, fileCount) == [i \in DOMAIN counts |-> 0]

\* First pass: guarantee minimum per file
firstPass(counts, fileCount) ==
    [i \in DOMAIN counts |-> Min2(counts[i], MIN_PER_FILE(fileCount))]

\* (Math.ceil in place of Math.floor)
proportionalShareCeil(leftover, totalLeftover, remaining) ==
    (leftover * remaining + totalLeftover - 1) \div totalLeftover

\* Math.floor((leftover[i] / totalLeftover) * remaining)
proportionalShare(leftover, totalLeftover, remaining) ==
    (leftover * remaining) \div totalLeftover

\* Second pass: distribute remaining budget proportionally to file sizes
secondPass(counts, allocations) ==
    LET budgetUsed == SumSeq(allocations)
        remaining == MAX_EVENTS - budgetUsed
        leftover == [i \in DOMAIN counts |-> counts[i] - allocations[i]]
        totalLeftover == SumSeq(leftover)
    IN IF remaining > 0 /\ totalLeftover > 0
        THEN [i \in DOMAIN counts |->
                allocations[i]
                + Min2(leftover[i], proportionalShare(leftover[i], totalLeftover, remaining))]
        ELSE allocations

Allocations(counts, fileCount) == secondPass(counts, firstPass(counts, fileCount))

\* Math.min(Math.floor(j * stride), events.length - 1), stride = n / budget;
\* j and the result count from 0
\* (the stride taken upside down: allocation / events.length)
sampleIndexShrinking(j, n, budget) == Min2((j * budget) \div n, n - 1)

sampleIndex(j, n, budget) == Min2((j * n) \div budget, n - 1)

\* (every event of the file pushed, whatever its allocation)
sampleFileWhole(events, allocation) == events

\* the events of one file that Phase 2 pushes to allEvents
sampleFile(events, allocation) ==
    LET budget == Min2(allocation, Len(events)) IN
    IF budget >= Len(events) THEN events
    ELSE [j \in 1..budget |-> events[sampleIndex(j - 1, Len(events), budget) + 1]]

\* (eventsDropped += events.length, forgetting the budget)
droppedOfFileWhole(count, allocation) ==
    LET budget == Min2(allocation, count) IN
    IF budget >= count THEN 0 ELSE count

\* what one file adds to eventsDropped
droppedOfFile(count, allocation) ==
    LET budget == Min2(allocation, count) IN
    IF budget >= count THEN 0 ELSE count - budget

RECURSIVE Concat(_)
Concat(lists) == IF lists = <<>> THEN <<>> ELSE Head(lists) \o Concat(Tail(lists))

\* (a, b) => (a.timestamp || 0) - (b.timestamp || 0)
compareEvents(a, b) == ToNumber(a.timestamp) - ToNumber(b.timestamp)

\* (an unstable sort: an element overtakes the elements it compares equal to)
RECURSIVE insertSortedUnstable(_, _)
insertSortedUnstable(sorted, e) ==
    IF sorted = <<>> THEN << e >>
    ELSE IF compareEvents(sorted[Len(sorted)], e) < 0 THEN Append(sorted, e)
    ELSE Append(insertSortedUnstable(SubSeq(sorted, 1, Len(sorted) - 1), e),
                sorted[Len(sorted)])

\* Array.prototype.sort is stable: an element is placed after the elements
\* that do not compare greater than it.
RECURSIVE insertSorted(_, _)
insertSorted(sorted, e) ==
    IF sorted = <<>> THEN << e >>
    ELSE IF compareEvents(sorted[Len(sorted)], e) <= 0 THEN Append(sorted, e)
    ELSE Append(insertSorted(SubSeq(sorted, 1, Len(sorted) - 1), e), sorted[Len(sorted)])

RECURSIVE sortEvents(_)
sortEvents(events) ==
    IF events = <<>> THEN <<>>
    ELSE insertSorted(sortEvents(SubSeq(events, 1, Len(events) - 1)), events[Len(events)])

\* (the list cut at MAX_EVENTS in place of the per-file sampling)
collectEventsTruncating(results, total, fileCount) ==
    LET all == Concat([i \in DOMAIN results |-> results[i].events])
    IN SubSeq(all, 1, Min2(MAX_EVENTS, Len(all)))

\* allEvents before the sort
collectEvents(results, total, fileCount) ==
    IF total <= MAX_EVENTS
        THEN Concat([i \in DOMAIN results |-> results[i].events])
        ELSE LET allocations == Allocations(EventCounts(results), fileCount) IN
             Concat([i \in DOMAIN results |-> sampleFile(results[i].events, allocations[i])])

countDropped(results, total, fileCount) ==
    IF total <= MAX_EVENTS THEN 0
    ELSE LET counts == EventCounts(results)
             allocations == Allocations(counts, fileCount)
         IN SumSeq([i \in DOMAIN results |-> droppedOfFile(counts[i], allocations[i])])

\* ------------------------------------------------------- bucketByInterval
\* evt.timestamp is a Date or null.  For a Date line 36 takes getTime(); for
\* null it takes new Date(null).getTime(), which is 0 and not NaN, so the
\* isNaN test of line 37 lets both through.
bucketTime(evt) == ToNumber(evt.timestamp)
bucketKey(evt, intervalMs) == (bucketTime(evt) \div intervalMs) * intervalMs

RECURSIVE ascending(_)
ascending(keys) ==
    IF keys = {} THEN <<>>
    ELSE LET least == CHOOSE k \in keys : \A other \in keys : k <= other
         IN << least >> \o ascending(keys \ {least})

bucketByInterval(events, intervalMs) ==
    LET keys == ascending({ bucketKey(events[i], intervalMs) : i \in DOMAIN events })
    IN [ b \in DOMAIN keys |->
           [ timestamp |-> Date(keys[b]),
             events |-> SelectSeq(events, LAMBDA evt : bucketKey(evt, intervalMs) = keys[b]) ] ]

\* --------------------------------------------------------- classifyErrors
\* pattern.severity, in table order
SEVERITIES == << 5, 4, 5, 3, 5, 3, 2, 5, 4, 2, 4, 4, 4, 5, 5, 5, 3, 3, 3, 4, 4, 5, 3 >>

\* A JavaScript object or Set whose order of insertion matters is the
\* sequence of its entries.
Has(entries, name) == \E i \in DOMAIN entries : entries[i].name = name
IndexOf(entries, name) == CHOOSE i \in DOMAIN entries : entries[i].name = name
SetAdd(members, v) ==
    IF \E i \in DOMAIN members : members[i] = v THEN members ELSE Append(members, v)

NewCategory(name, severity) ==
    [ name |-> name, count |-> 0, severity |-> severity, affectedPods |-> <<>>,
      affectedDeployments |-> <<>>, affectedBots |-> <<>>, samples |-> <<>> ]

NewCategories ==
    [ i \in DOMAIN ERROR_PATTERNS |-> NewCategory(ERROR_PATTERNS[i], SEVERITIES[i]) ]
        \o << NewCategory("uncategorized", 1) >>

\* lines 28-33
\* (c.count += 2)
countInCategoryTwice(c, evt) == [ c EXCEPT !.count = @ + 2 ]

countInCategory(c, evt) ==
    [ c EXCEPT
        !.count = @ + 1,
        !.affectedPods = IF Truthy(evt.pod) THEN SetAdd(@, evt.pod) ELSE @,
        !.affectedDeployments = IF Truthy(evt.deployment) THEN SetAdd(@, evt.deployment) ELSE @,
        !.affectedBots = IF Truthy(evt.botId) THEN SetAdd(@, evt.botId) ELSE @,
        !.samples = IF Len(@) < 5 THEN Append(@, evt) ELSE @ ]

RECURSIVE countCategories(_, _, _)
countCategories(categories, evt, cats) ==
    IF cats = <<>> THEN categories
    ELSE LET known == IF Has(categories, Head(cats)) THEN categories
                      ELSE Append(categories, NewCategory(Head(cats), 1))
             at == IndexOf(known, Head(cats))
         IN countCategories([known EXCEPT ![at] = countInCategory(@, evt)], evt, Tail(cats))

\* lines 36-41; the key is evt.pod || 'unknown'
countPod(byPod, evt) ==
    LET podKey == IF Truthy(evt.pod) THEN evt.pod ELSE << "unknown" >>
        known == IF Has(byPod, podKey) THEN byPod
                 ELSE Append(byPod, [name |-> podKey, count |-> 0, categories |-> EmptyObj])
        at == IndexOf(known, podKey)
    IN [ known EXCEPT ![at].count = @ + 1,
                      ![at].categories = bumpAll(@, evt.categories) ]

\* lines 43-50
countBot(byBot, evt) ==
    IF ~Truthy(evt.botId) THEN byBot
    ELSE LET known == IF Has(byBot, evt.botId) THEN byBot
                      ELSE Append(byBot, [name |-> evt.botId, count |-> 0,
                                          categories |-> EmptyObj, pods |-> <<>>])
             at == IndexOf(known, evt.botId)
         IN [ known EXCEPT ![at].count = @ + 1,
                           ![at].pods = IF Truthy(evt.pod) THEN SetAdd(@, evt.pod) ELSE @,
                           ![at].categories = bumpAll(@, evt.categories) ]

\* the loop of lines 23-51
RECURSIVE countEvents(_, _)
countEvents(acc, events) ==
    IF events = <<>> THEN acc
    ELSE LET evt == Head(events) IN
         countEvents([ categories |-> countCategories(acc.categories, evt, evt.categories),
                       byPod |-> countPod(acc.byPod, evt),
                       byBot |-> countBot(acc.byBot, evt) ],
                     Tail(events))

RECURSIVE categoryCounts(_)
categoryCounts(events) ==
    IF events = <<>> THEN EmptyObj
    ELSE bumpAll(categoryCounts(SubSeq(events, 1, Len(events) - 1)),
                 events[Len(events)].categories)

\* lines 55-63
timelineOf(buckets) ==
    [ b \in DOMAIN buckets |->
        [ timestamp |-> buckets[b].timestamp,
          categories |-> categoryCounts(buckets[b].events),
          total |-> Len(buckets[b].events) ] ]

\* .sort((a, b) => b.count - a.count): a stable sort, count descending
RECURSIVE byCountDescending(_)
byCountDescending(entries) ==
    IF entries = <<>> THEN <<>>
    ELSE LET rest == byCountDescending(SubSeq(entries, 1, Len(entries) - 1))
             x == entries[Len(entries)]
             before == SelectSeq(rest, LAMBDA e : e.count >= x.count)
             after == SelectSeq(rest, LAMBDA e : e.count < x.count)
         IN before \o << x >> \o after

firstTwenty(entries) == SubSeq(entries, 1, Min2(20, Len(entries)))

classifyErrors(events, intervalMs) ==
    LET counts == countEvents([categories |-> NewCategories, byPod |-> <<>>, byBot |-> <<>>],
                              events)
    IN [ categories |->
             byCountDescending(SelectSeq(counts.categories, LAMBDA c : c.count > 0)),
         timeline |-> timelineOf(bucketByInterval(events, intervalMs)),
         topPods |-> firstTwenty(byCountDescending(counts.byPod)),
         topBots |-> firstTwenty(byCountDescending(counts.byBot)) ]


\* --------------------------------------------- parser-utils: field parsers
\* A whitespace-separated field is its leading run of digits (lead: NULL or
\* the one-element sequence of its value) followed by the rest of its text.
\* A parsed number is likewise NULL or the one-element sequence of its value.
Field(lead, rest) == [lead |-> lead, rest |-> rest]
Word(text) == Field(NULL, text)
Num(n) == << n >>
Digits(n) == Field(Num(n), "")

\* parseInt reads the leading digits and ignores what follows them
parseIntSafe(text) ==
    IF text = NULL \/ text = Word("-") THEN NULL ELSE text.lead

\* /^(\d+)m$/, else /^(\d+(?:\.\d+)?)$/ in cores
parseCpu(text) ==
    IF text = NULL \/ text = Word("-") \/ text.lead = NULL THEN NULL
    ELSE IF text.rest = "m" THEN text.lead
    ELSE IF text.rest = "" THEN Num(text.lead[1] * 1000)
    ELSE NULL

\* Mi, Gi, Ki
parseMemory(text) ==
    IF text = NULL \/ text = Word("-") \/ text.lead = NULL THEN NULL
    ELSE IF text.rest = "Mi" THEN text.lead
    ELSE IF text.rest = "Gi" THEN Num(text.lead[1] * 1024)
    ELSE IF text.rest = "Ki" THEN Num((2 * text.lead[1] + 1024) \div 2048)
    ELSE NULL

\* /(\d+)%/
parsePercent(text) ==
    IF text = NULL \/ text = Word("-") \/ text.lead = NULL THEN NULL
    ELSE IF text.rest = "%" THEN text.lead
    ELSE NULL

\* parts[i] of JavaScript (undefined, here NULL, past the end)
Part(parts, i) == IF i + 1 \in DOMAIN parts THEN parts[i + 1] ELSE NULL

\* --------------------------------------------------------- metrics-parser
\* A trimmed line of a metrics file is one of
\*   banner   /METRICS.*namespace.*\d{4}-\d{2}-\d{2}/, with the text that
\*            parseMetricsTimestamp looks at
\*   section  one of the seven "--- ..." section headers
\*   rule     /^={5,}/ or the empty line
\*   text     any other line, as its whitespace-separated fields
BannerLine(stamp) == [kind |-> "banner", stamp |-> stamp, name |-> "", parts |-> <<>>]
SectionLine(name) == [kind |-> "section", stamp |-> TsStr(FALSE, 0), name |-> name, parts |-> <<>>]
RuleLine == [kind |-> "rule", stamp |-> TsStr(FALSE, 0), name |-> "", parts |-> <<>>]
TextLine(parts) == [kind |-> "text", stamp |-> TsStr(FALSE, 0), name |-> "", parts |-> parts]

\* stamp.valid: the banner holds "YYYY-MM-DD hh:mm:ss" and new Date accepts it
parseMetricsTimestamp(str) == IF str.valid THEN Date(str.ms) ELSE NULL

NewSnapshot(file) ==
    [ timestamp |-> NULL, file |-> file, nodes |-> <<>>, pods |-> <<>>,
      deployments |-> <<>>,
      podStatus |-> [running |-> 0, pending |-> 0, failed |-> 0],
      dbPoolSummary |-> [available |-> FALSE, error |-> NULL],
      dbConnections |-> <<>>, podConfig |-> <<>> ]

\* the locals of parseMetricsFile; section "none" is null
NewMetricsParse(file) ==
    [ section |-> "none", headerParsed |-> FALSE, snapshot |-> NewSnapshot(file) ]

\* the sections whose header line resets headerParsed (lines 510-516)
GatedSections == { "nodes", "pods", "deployments", "dbConnections", "podConfig" }

\* (headerParsed left as the previous section set it)
enterSectionKeepingFlag(st, name) == [ st EXCEPT !.section = name ]

enterSection(st, name) ==
    [ st EXCEPT !.section = name,
                !.headerParsed = IF name \in GatedSections THEN FALSE ELSE @ ]

\* /^NAME\s/, /^DEPLOYMENT\s/: the first field is the word and more follows
startsWithWord(parts, word) == Len(parts) >= 2 /\ parts[1] = Word(word)
\* /^DEPLOYMENT/, /^POD_NAME/: the first field begins with the word
startsWith(parts, word) == Len(parts) >= 1 /\ parts[1] = Word(word)

\* lines 519-532
nodesLine(st, parts) ==
    IF startsWithWord(parts, "NAME") THEN [st EXCEPT !.headerParsed = TRUE]
    ELSE IF ~st.headerParsed THEN st
    ELSE IF Len(parts) >= 5
        THEN [ st EXCEPT !.snapshot.nodes = Append(@,
                 [ name |-> Part(parts, 0),
                   cpuMillicores |-> parseCpu(Part(parts, 1)),
                   cpuPercent |-> parsePercent(Part(parts, 2)),
                   memoryMi |-> parseMemory(Part(parts, 3)),
                   memoryPercent |-> parsePercent(Part(parts, 4)) ]) ]
    ELSE st

\* /\d+m?$/ on a field: digits, or digits and the letter m
endsInMillicores(text) == text.lead # NULL /\ text.rest \in { "", "m" }

\* lines 534-543: headerParsed is not consulted
podsLine(st, parts) ==
    IF Len(parts) >= 3 /\ endsInMillicores(Part(parts, 1))
        THEN [ st EXCEPT !.snapshot.pods = Append(@,
                 [ name |-> Part(parts, 0),
                   cpuMillicores |-> parseCpu(Part(parts, 1)),
                   memoryMi |-> parseMemory(Part(parts, 2)) ]) ]
    ELSE st

\* parts[i] ? parse(parts[i]) : null
parseIfPresent(text, cpu) ==
    IF text = NULL THEN NULL ELSE IF cpu THEN parseCpu(text) ELSE parseMemory(text)

\* lines 545-563
deploymentsLine(st, parts) ==
    IF startsWithWord(parts, "DEPLOYMENT") THEN [st EXCEPT !.headerParsed = TRUE]
    ELSE IF ~st.headerParsed THEN st
    ELSE IF Len(parts) >= 3
        THEN [ st EXCEPT !.snapshot.deployments = Append(@,
                 [ name |-> Part(parts, 0),
                   desired |-> parseIntSafe(Part(parts, 1)),
                   ready |-> parseIntSafe(Part(parts, 2)),
                   cpuRequest |-> parseIfPresent(Part(parts, 3), TRUE),
                   cpuLimit |-> parseIfPresent(Part(parts, 4), TRUE),
                   memRequest |-> parseIfPresent(Part(parts, 5), FALSE),
                   memLimit |-> parseIfPresent(Part(parts, 6), FALSE) ]) ]
    ELSE st

\* /(\d+)\s+(Running|Pending|Failed|CrashLoopBackOff)/i: a field of digits
\* followed by a field that begins with a status word; the leftmost match
StatusWords == { "Running", "Pending", "Failed", "CrashLoopBackOff" }
statusMatches(parts) ==
    { k \in DOMAIN parts :
        /\ k + 1 \in DOMAIN parts
        /\ parts[k].lead # NULL /\ parts[k].rest = ""
        /\ parts[k + 1].lead = NULL /\ parts[k + 1].rest \in StatusWords }

\* lines 565-574
podStatusLine(st, parts) ==
    IF statusMatches(parts) = {} THEN st
    ELSE LET k == CHOOSE m \in statusMatches(parts) : \A o \in statusMatches(parts) : m <= o
             count == parts[k].lead[1]
             status == parts[k + 1].rest
         IN IF status = "Running" THEN [st EXCEPT !.snapshot.podStatus.running = @ + count]
            ELSE IF status = "Pending" THEN [st EXCEPT !.snapshot.podStatus.pending = @ + count]
            ELSE [st EXCEPT !.snapshot.podStatus.failed = @ + count]

\* /DB query failed/i and /\d/
queryFailed(parts) ==
    \E k \in DOMAIN parts :
        /\ k + 2 \in DOMAIN parts
        /\ parts[k] = Word("DB") /\ parts[k + 1] = Word("query") /\ parts[k + 2] = Word("failed")
hasDigit(parts) == \E k \in DOMAIN parts : parts[k].lead # NULL

\* lines 576-582
dbPoolSummaryLine(st, parts) ==
    IF queryFailed(parts) THEN [st EXCEPT !.snapshot.dbPoolSummary.error = << "DB query failed" >>]
    ELSE IF hasDigit(parts) THEN [st EXCEPT !.snapshot.dbPoolSummary.available = TRUE]
    ELSE st

\* parseIntSafe(text) || 0
intOrZero(text) == LET n == parseIntSafe(text) IN IF n = NULL THEN 0 ELSE n[1]

\* lines 584-602
dbConnectionsLine(st, parts) ==
    IF startsWith(parts, "POD_NAME") THEN [st EXCEPT !.headerParsed = TRUE]
    ELSE IF ~st.headerParsed THEN st
    ELSE IF Len(parts) >= 4 /\ parseIntSafe(parts[Len(parts) - 3]) # NULL
        THEN LET podParts == SubSeq(parts, 1, Len(parts) - 4) IN
             [ st EXCEPT !.snapshot.dbConnections = Append(@,
                 [ pod |-> IF podParts = <<>> THEN << Word("unknown") >> ELSE podParts,
                   total |-> parseIntSafe(parts[Len(parts) - 3]),
                   idle |-> intOrZero(parts[Len(parts) - 2]),
                   active |-> intOrZero(parts[Len(parts) - 1]),
                   maxSec |-> intOrZero(parts[Len(parts)]) ]) ]
    ELSE st

\* lines 604-618
podConfigLine(st, parts) ==
    IF startsWith(parts, "DEPLOYMENT") THEN [st EXCEPT !.headerParsed = TRUE]
    ELSE IF ~st.headerParsed THEN st
    ELSE IF Len(parts) >= 2
        THEN [ st EXCEPT !.snapshot.podConfig = Append(@,
                 [ deployment |-> Part(parts, 0),
                   dbPoolMax |-> parseIntSafe(Part(parts, 1)),
                   dbPoolMin |-> parseIntSafe(Part(parts, 2)),
                   dbMaxConn |-> parseIntSafe(Part(parts, 3)),
                   acquireMs |-> parseIntSafe(Part(parts, 4)),
                   idleMs |-> parseIntSafe(Part(parts, 5)) ]) ]
    ELSE st

\* one turn of the loop of lines 502-619
parseMetricsLine(st, line) ==
    IF line.kind = "banner"
        THEN [st EXCEPT !.snapshot.timestamp = parseMetricsTimestamp(line.stamp)]
    ELSE IF line.kind = "section" THEN enterSection(st, line.name)
    ELSE IF line.kind = "rule" THEN st
    ELSE IF st.section = "nodes" THEN nodesLine(st, line.parts)
    ELSE IF st.section = "pods" THEN podsLine(st, line.parts)
    ELSE IF st.section = "deployments" THEN deploymentsLine(st, line.parts)
    ELSE IF st.section = "podStatus" THEN podStatusLine(st, line.parts)
    ELSE IF st.section = "dbPoolSummary" THEN dbPoolSummaryLine(st, line.parts)
    ELSE IF st.section = "dbConnections" THEN dbConnectionsLine(st, line.parts)
    ELSE IF st.section = "podConfig" THEN podConfigLine(st, line.parts)
    ELSE st

RECURSIVE parseMetricsLines(_, _)
parseMetricsLines(st, lines) ==
    IF lines = <<>> THEN st
    ELSE parseMetricsLines(parseMetricsLine(st, Head(lines)), Tail(lines))

\* a readable file: its number in filePaths and its lines
parseMetricsFile(file, lines) == parseMetricsLines(NewMetricsParse(file), lines).snapshot

\* (a, b) => (a.timestamp || 0) - (b.timestamp || 0)
compareSnapshots(a, b) == ToNumber(a.timestamp) - ToNumber(b.timestamp)

\* (the list left in the order of the file paths)
sortSnapshotsNot(snapshots) == snapshots

RECURSIVE sortSnapshots(_)
sortSnapshots(snapshots) ==
    IF snapshots = <<>> THEN <<>>
    ELSE LET rest == sortSnapshots(SubSeq(snapshots, 1, Len(snapshots) - 1))
             x == snapshots[Len(snapshots)]
         IN SelectSeq(rest, LAMBDA a : compareSnapshots(a, x) <= 0) \o << x >>
              \o SelectSeq(rest, LAMBDA a : compareSnapshots(a, x) > 0)

Max2(a, b) == IF a >= b THEN a ELSE b
RECURSIVE maxPods(_)
maxPods(snapshots) ==
    IF snapshots = <<>> THEN 0
    ELSE Max2(maxPods(Tail(snapshots)), Len(Head(snapshots).pods))

\* lines 628-638, on the sorted list
metricsStats(snapshots) ==
    [ snapshotCount |-> Len(snapshots),
      timeRange |->
        [ start |-> IF snapshots = <<>> THEN NULL ELSE snapshots[1].timestamp,
          end |-> IF snapshots = <<>> THEN NULL ELSE snapshots[Len(snapshots)].timestamp ],
      nodeCount |-> IF snapshots = <<>> THEN 0 ELSE Len(snapshots[1].nodes),
      podCount |-> maxPods(snapshots) ]

\* lines 626-638, given the snapshots in the order of filePaths
metricsResult(parsed) ==
    LET snapshots == sortSnapshots(parsed)
    IN [ snapshots |-> snapshots, stats |-> metricsStats(snapshots) ]

\* files: the files in the order of filePaths, each with its lines
parseAllMetrics(files) ==
    metricsResult([ i \in DOMAIN files |-> parseMetricsFile(i, files[i].lines) ])

\* main, line 226
DefaultMetricsData == [ snapshots |-> <<>>, stats |-> [ snapshotCount |-> 0 ] ]

\* -------------------------------------------------------- metrics-analyzer
\* prevDeployments: the rows of the previous snapshot by name, a later row
\* of the same name replacing an earlier one (line 59)
RECURSIVE byName(_)
byName(deployments) ==
    IF deployments = <<>> THEN [n \in {} |-> NULL]
    ELSE LET last == deployments[Len(deployments)]
             before == byName(SubSeq(deployments, 1, Len(deployments) - 1))
         IN [ n \in DOMAIN before \cup { last.name } |->
                IF n = last.name THEN last ELSE before[n] ]

\* (a row is compared with nothing and reported as a change from null)
scalingEventsOfAlways(snap, at, prevDeployments) ==
    [ i \in DOMAIN snap.deployments |->
        [ snapshot |-> at, timestamp |-> snap.timestamp,
          deployment |-> snap.deployments[i].name,
          from |-> NULL, to |-> snap.deployments[i].desired ] ]

\* lines 47-57: the events of one snapshot, in the order of its rows.
\* snapshot is the position of the snapshot in the list analysed.
scalingEventsOf(snap, at, prevDeployments) ==
    LET changed == SelectSeq(snap.deployments, LAMBDA depl :
                      /\ depl.name \in DOMAIN prevDeployments
                      /\ prevDeployments[depl.name].desired # depl.desired)
    IN [ i \in DOMAIN changed |->
           [ snapshot |-> at, timestamp |-> snap.timestamp,
             deployment |-> changed[i].name,
             from |-> prevDeployments[changed[i].name].desired,
             to |-> changed[i].desired ] ]

\* (prevDeployments never reset: a row is compared with the latest earlier
\* row of its name, however many snapshots back)
RECURSIVE scalingEventsAcrossGaps(_, _)
scalingEventsAcrossGaps(snapshots, at) ==
    IF at > Len(snapshots) THEN <<>>
    ELSE LET prevDeployments ==
                 byName(Concat([ k \in 1..(at - 1) |-> snapshots[k].deployments ]))
         IN scalingEventsOf(snapshots[at], at, prevDeployments)
              \o scalingEventsAcrossGaps(snapshots, at + 1)

\* the loop of lines 19-60, from snapshot number at on
RECURSIVE scalingEvents(_, _)
scalingEvents(snapshots, at) ==
    IF at > Len(snapshots) THEN <<>>
    ELSE LET prevDeployments == IF at = 1 THEN byName(<<>>)
                                ELSE byName(snapshots[at - 1].deployments)
         IN scalingEventsOf(snapshots[at], at, prevDeployments)
              \o scalingEvents(snapshots, at + 1)

\* node.name.split('.')[0].replace('ip-', '') is left as the name itself.
\* null > 80 is false.
exceeds80(percent) == percent # NULL /\ percent[1] > 80

nodeAlertsOfNode(snap, node) ==
    (IF exceeds80(node.cpuPercent)
        THEN << [ timestamp |-> snap.timestamp, node |-> node.name,
                  type |-> "high_cpu", value |-> node.cpuPercent ] >>
        ELSE <<>>)
    \o (IF exceeds80(node.memoryPercent)
        THEN << [ timestamp |-> snap.timestamp, node |-> node.name,
                  type |-> "high_memory", value |-> node.memoryPercent ] >>
        ELSE <<>>)

\* lines 24-35
nodeAlertsOf(snap) == Concat([ i \in DOMAIN snap.nodes |-> nodeAlertsOfNode(snap, snap.nodes[i]) ])

\* Of the result: scalingEvents and nodeAlerts.  The trends, hotPods,
\* utilizationStats and deploymentTimelines are computed from the same list
\* without touching these two and are not part of the model.
analyzeMetrics(snapshots) ==
    [ scalingEvents |-> scalingEvents(snapshots, 1),
      nodeAlerts |-> Concat([ i \in DOMAIN snapshots |-> nodeAlertsOf(snapshots[i]) ]) ]

\* --------------------------------------------------------- db-debug-parser
\* A JavaScript string-or-null is NULL or the one-element sequence of the
\* text; a text is the sequence of its characters.
Str(text) == << text >>

\* A trimmed, non-empty line of db_debug.log is one of
\*   stamp    TIMESTAMP_RE matches, with the text parseDbTimestamp is given
\*   columns  HEADER_RE matches
\*   row      any other line, as its tab-separated fields: fields 0 and 5
\*            (Id, Time) as a Field, the others as a text
\* and the empty line is blank.
DbBlankLine == [kind |-> "blank", stamp |-> TsStr(FALSE, 0), parts |-> <<>>]
DbStampLine(stamp) == [kind |-> "stamp", stamp |-> stamp, parts |-> <<>>]
DbColumnsLine == [kind |-> "columns", stamp |-> TsStr(FALSE, 0), parts |-> <<>>]
DbRowLine(parts) == [kind |-> "row", stamp |-> TsStr(FALSE, 0), parts |-> parts]

\* stamp.valid: new Date accepts the text of the line
parseDbTimestamp(str) == IF str.valid THEN Date(str.ms) ELSE NULL

NewDbSnapshot(timestamp) ==
    [ timestamp |-> timestamp, connections |-> <<>>,
      stats |-> [ total |-> 0, sleeping |-> 0, active |-> 0,
                  byDatabase |-> EmptyObj, longestConnection |-> 0 ] ]

\* the locals of parseDbDebug; currentSnapshot is <<>> for null, else the
\* one-element sequence of the snapshot
NewDbParse == [ snapshots |-> <<>>, currentSnapshot |-> <<>>, lineCount |-> 0 ]

\* parts[i] === 'NULL' ? null : parts[i], undefined when the field is absent
nullable(parts, i) ==
    IF i + 1 \notin DOMAIN parts THEN NULL
    ELSE IF parts[i + 1] = << "N", "U", "L", "L" >> THEN NULL
    ELSE Str(parts[i + 1])

\* parseInt(parts[i], 10) || 0
parseIntOrZero(text) == IF text = NULL \/ text.lead = NULL THEN 0 ELSE text.lead[1]

\* lines 346-355
makeConnection(parts) ==
    [ id |-> parseIntOrZero(Part(parts, 0)),
      user |-> parts[2],
      host |-> parts[3],
      db |-> nullable(parts, 3),
      command |-> parts[5],
      time |-> parseIntOrZero(Part(parts, 5)),
      state |-> IF 7 \in DOMAIN parts /\ parts[7] # <<>> THEN Str(parts[7]) ELSE NULL,
      info |-> nullable(parts, 7) ]

Sleep == << "S", "l", "e", "e", "p" >>
Daemon == << "D", "a", "e", "m", "o", "n" >>

\* (every connection counted as active)
countConnectionAllActive(snap, conn) ==
    [ snap EXCEPT
        !.connections = Append(@, conn),
        !.stats.total = @ + 1,
        !.stats.active = @ + 1 ]

\* lines 357-366; an empty database name is falsy
countConnection(snap, conn) ==
    [ snap EXCEPT
        !.connections = Append(@, conn),
        !.stats.total = @ + 1,
        !.stats.sleeping = IF conn.command = Sleep THEN @ + 1 ELSE @,
        !.stats.active = IF conn.command = Sleep THEN @ ELSE @ + 1,
        !.stats.byDatabase =
            IF conn.db # NULL /\ conn.db # Str(<<>>) THEN Bump(@, conn.db[1], 1) ELSE @,
        !.stats.longestConnection = IF conn.time > @ THEN conn.time ELSE @ ]

\* (the snapshot in progress replaced without being pushed)
startSnapshotLosing(st, stamp) ==
    [ st EXCEPT !.currentSnapshot = << NewDbSnapshot(parseDbTimestamp(stamp)) >> ]

\* lines 331-339
startSnapshot(st, stamp) ==
    [ st EXCEPT
        !.snapshots = IF st.currentSnapshot # <<>> THEN Append(@, st.currentSnapshot[1]) ELSE @,
        !.currentSnapshot = << NewDbSnapshot(parseDbTimestamp(stamp)) >> ]

\* lines 343-368
rowLine(st, parts) ==
    IF st.currentSnapshot # <<>> /\ Len(parts) >= 5
        THEN [ st EXCEPT !.currentSnapshot[1] = countConnection(@, makeConnection(parts)) ]
        ELSE st

\* one turn of the loop of lines 324-369
parseDbLine(st, line) ==
    LET counted == [st EXCEPT !.lineCount = @ + 1] IN
    IF line.kind = "blank" THEN counted
    ELSE IF line.kind = "stamp" THEN startSnapshot(counted, line.stamp)
    ELSE IF line.kind = "columns" THEN counted
    ELSE rowLine(counted, line.parts)

RECURSIVE totalConnections(_)
totalConnections(snapshots) ==
    IF snapshots = <<>> THEN 0
    ELSE Head(snapshots).stats.total + totalConnections(Tail(snapshots))

\* Math.round(a / b) for a >= 0, b > 0
roundDiv(a, b) == (2 * a + b) \div (2 * b)

\* lines 371-384
endOfDbDebug(st) ==
    LET snapshots == IF st.currentSnapshot # <<>>
                        THEN Append(st.snapshots, st.currentSnapshot[1])
                        ELSE st.snapshots
    IN [ snapshots |-> snapshots,
         stats |->
           [ snapshotCount |-> Len(snapshots),
             timeRange |->
               [ start |-> IF snapshots = <<>> THEN NULL ELSE snapshots[1].timestamp,
                 end |-> IF snapshots = <<>> THEN NULL
                         ELSE snapshots[Len(snapshots)].timestamp ],
             avgConnectionsPerSnapshot |->
               IF snapshots = <<>> THEN 0
               ELSE roundDiv(totalConnections(snapshots), Len(snapshots)) ] ]

\* lines 312-314 and main, line 235
DefaultDbData == [ snapshots |-> <<>>, stats |-> [ snapshotCount |-> 0 ] ]

\* ------------------------------------------------------------ db-analyzer
\* conn.info ? conn.info.substring(0, 200) : null; the empty text is falsy
truncateQuery(info) ==
    IF info = NULL \/ info = Str(<<>>) THEN NULL
    ELSE Str(SubSeq(info[1], 1, Min2(QUERY_CHARS, Len(info[1]))))

\* (no test of the command or of the elapsed time)
isLongRunningAlways(conn) == TRUE

\* line 122
isLongRunning(conn) ==
    conn.time > LONG_RUNNING_SECS /\ conn.command # Sleep /\ conn.command # Daemon

\* lines 121-133, for one snapshot
longRunningOf(snap) ==
    LET slow == SelectSeq(snap.connections, isLongRunning) IN
    [ i \in DOMAIN slow |->
        [ timestamp |-> snap.timestamp, id |-> slow[i].id, user |-> slow[i].user,
          db |-> slow[i].db, duration |-> slow[i].time, command |-> slow[i].command,
          query |-> truncateQuery(slow[i].info) ] ]

\* `${v}` of a string or of null
templateText(v) == IF v = NULL THEN << "n", "u", "l", "l" >> ELSE v[1]

\* `${q.db}:${q.query}`
queryKey(q) == templateText(q.db) \o << ":" >> \o templateText(q.query)

\* .sort((a, b) => b.duration - a.duration): stable, duration descending
RECURSIVE byDurationDescending(_)
byDurationDescending(queries) ==
    IF queries = <<>> THEN <<>>
    ELSE LET rest == byDurationDescending(SubSeq(queries, 1, Len(queries) - 1))
             x == queries[Len(queries)]
         IN SelectSeq(rest, LAMBDA q : q.duration >= x.duration) \o << x >>
              \o SelectSeq(rest, LAMBDA q : q.duration < x.duration)

\* (a key may be taken again)
RECURSIVE uniqueLongRepeating(_, _, _)
uniqueLongRepeating(sorted, seen, kept) ==
    IF sorted = <<>> THEN kept
    ELSE LET taken == Append(kept, Head(sorted)) IN
         IF Len(taken) >= MAX_LONG_QUERIES THEN taken
         ELSE uniqueLongRepeating(Tail(sorted), seen, taken)

\* the loop of lines 172-176
RECURSIVE uniqueLong(_, _, _)
uniqueLong(sorted, seen, kept) ==
    IF sorted = <<>> THEN kept
    ELSE LET q == Head(sorted)
             key == queryKey(q)
             taken == IF key \in seen THEN kept ELSE Append(kept, q)
         IN IF Len(taken) >= MAX_LONG_QUERIES THEN taken
            ELSE uniqueLong(Tail(sorted), seen \cup { key }, taken)

RECURSIVE maxDuration(_)
maxDuration(queries) ==
    IF queries = <<>> THEN 0
    ELSE Max2(Head(queries).duration, maxDuration(Tail(queries)))

RECURSIVE peakOf(_, _)
peakOf(snapshots, field) ==
    IF snapshots = <<>> THEN 0
    ELSE Max2(Head(snapshots).stats[field], peakOf(Tail(snapshots), field))

\* lines 161-168; a message is its severity, its kind and its numbers
dbAlerts(peakActive, longRunning) ==
    (IF peakActive > 50
        THEN << [ severity |-> "high", kind |-> "peak_active", values |-> << peakActive >> ] >>
        ELSE <<>>)
    \o (IF Len(longRunning) > 0
        THEN << [ severity |-> "medium", kind |-> "long_running",
                  values |-> << Len(longRunning), maxDuration(longRunning) >> ] >>
        ELSE <<>>)

\* lines 135-141
dbTimeline(snapshots) ==
    [ i \in DOMAIN snapshots |->
        [ timestamp |-> snapshots[i].timestamp, total |-> snapshots[i].stats.total,
          active |-> snapshots[i].stats.active, sleeping |-> snapshots[i].stats.sleeping,
          longestSec |-> snapshots[i].stats.longestConnection ] ]

\* Of the result: longRunningQueries, alerts, timeline and the two peaks of
\* poolUsage.  The averages and connectionsByDatabase are computed from the
\* snapshots' stats alone and are not part of the model.
analyzeDbConnections(snapshots) ==
    IF snapshots = <<>>
        THEN [ poolUsage |-> EmptyObj,
               longRunningQueries |-> <<>>, alerts |-> <<>>, timeline |-> <<>> ]
    ELSE LET longRunning == Concat([ i \in DOMAIN snapshots |-> longRunningOf(snapshots[i]) ])
             peakActive == peakOf(snapshots, "active")
         IN [ poolUsage |-> [ peakActive |-> peakActive,
                              peakTotal |-> peakOf(snapshots, "total") ],
              longRunningQueries |-> uniqueLong(byDurationDescending(longRunning), {}, <<>>),
              alerts |-> dbAlerts(peakActive, longRunning),
              timeline |-> dbTimeline(snapshots) ]

\* --------------------------------------------------------- issue-detector
\* An issue is its id (the number idx had when it was pushed), its severity,
\* the rule that emitted it and what the rule found: the texts of title,
\* description, evidence, impact, rootCause and action are made of these.
NewIssue(severity, rule, subject) ==
    [ id |-> 0, severity |-> severity, rule |-> rule, subject |-> subject ]

\* the rules on a category count, lines 10-77 and 101-219: the issue is
\* pushed when the category is present with a count above the threshold
CategoryRule(category, above, severity) ==
    [ category |-> category, above |-> above, severity |-> severity ]
FirstRules ==
    << CategoryRule("redis_connection", 50, "critical"),
       CategoryRule("rasa_timeout", 10, "critical"),
       CategoryRule("oom_killed", 0, "critical"),
       CategoryRule("crash_restart", 0, "critical") >>
LaterRules ==
    << CategoryRule("mysql_warning", 20, "medium"),
       CategoryRule("nlu_fallback", 50, "medium"),
       CategoryRule("http_5xx", 10, "high"),
       CategoryRule("connection_reset", 20, "medium"),
       CategoryRule("slow_query", 5, "medium"),
       CategoryRule("kafka_error", 5, "high"),
       CategoryRule("lock_failure", 0, "low"),
       CategoryRule("tensorflow_warning", 5, "low") >>

\* catMap[name] of lines 7-8 (a later entry of the same name replaces an
\* earlier one), NULL when there is none
catMapAt(categories, name) ==
    LET at == { i \in DOMAIN categories : categories[i].name = name } IN
    IF at = {} THEN NULL
    ELSE categories[CHOOSE i \in at : \A j \in at : j <= i]

categoryIssues(categories, rules) ==
    Concat([ r \in DOMAIN rules |->
        LET c == catMapAt(categories, rules[r].category) IN
        IF c # NULL /\ c.count > rules[r].above
            THEN << NewIssue(rules[r].severity, rules[r].category, c) >>
            ELSE <<>> ])

\* (an issue for every scaling event)
isScaleUpAlways(evt) == TRUE

\* evt.to > evt.from, line 81; null counts as 0
isScaleUp(evt) == ToNumber(evt.to) > ToNumber(evt.from)

\* lines 79-99
scalingIssues(events) ==
    Concat([ i \in DOMAIN events |->
        IF isScaleUp(events[i]) THEN << NewIssue("high", "scaling", events[i]) >> ELSE <<>> ])

\* [...new Set(alerts.filter(a => a.type === type).map(a => a.node))]
RECURSIVE nodesWith(_, _, _)
nodesWith(alerts, type, found) ==
    IF alerts = <<>> THEN found
    ELSE nodesWith(Tail(alerts), type,
                   IF Head(alerts).type = type THEN SetAdd(found, Head(alerts).node) ELSE found)

\* lines 221-250
nodeIssues(alerts) ==
    LET highCpuNodes == nodesWith(alerts, "high_cpu", <<>>)
        highMemNodes == nodesWith(alerts, "high_memory", <<>>)
    IN (IF Len(highCpuNodes) > 0 THEN << NewIssue("high", "high_cpu", highCpuNodes) >> ELSE <<>>)
       \o (IF Len(highMemNodes) > 0 THEN << NewIssue("high", "high_memory", highMemNodes) >>
           ELSE <<>>)

\* lines 252-266
alertIssues(alerts) ==
    [ i \in DOMAIN alerts |-> NewIssue(alerts[i].severity, "db_alert", alerts[i]) ]

\* severityOrder[severity] ?? 4
severityOrder(severity) ==
    CASE severity = "critical" -> 0
      [] severity = "high" -> 1
      [] severity = "medium" -> 2
      [] severity = "low" -> 3
      [] OTHER -> 4

\* (the issues left in the order of their detection)
sortIssuesNot(issues) == issues

\* issues.sort(...) of line 269: stable, by severityOrder ascending
RECURSIVE sortIssues(_)
sortIssues(issues) ==
    IF issues = <<>> THEN <<>>
    ELSE LET rest == sortIssues(SubSeq(issues, 1, Len(issues) - 1))
             x == issues[Len(issues)]
         IN SelectSeq(rest, LAMBDA a : severityOrder(a.severity) <= severityOrder(x.severity))
              \o << x >>
              \o SelectSeq(rest, LAMBDA a : severityOrder(a.severity) > severityOrder(x.severity))

\* the issues in the order in which they are pushed, each with the value of
\* idx at its push
detectedIssues(errorAnalysis_, metricsAnalysis_, dbAnalysis_) ==
    LET pushed == categoryIssues(errorAnalysis_.categories, FirstRules)
                    \o scalingIssues(metricsAnalysis_.scalingEvents)
                    \o categoryIssues(errorAnalysis_.categories, LaterRules)
                    \o nodeIssues(metricsAnalysis_.nodeAlerts)
                    \o alertIssues(dbAnalysis_.alerts)
    IN [ i \in DOMAIN pushed |-> [pushed[i] EXCEPT !.id = i] ]

detectIssues(errorAnalysis_, metricsAnalysis_, dbAnalysis_) ==
    sortIssues(detectedIssues(errorAnalysis_, metricsAnalysis_, dbAnalysis_))

\* -------------------------------------------------- recommendation-engine
\* (every severity given the priority of an unknown one)
severityPriorityUnknown(severity) == 1

\* severityPriority[severity] || 1
severityPriority(severity) ==
    CASE severity = "critical" -> 10
      [] severity = "high" -> 7
      [] severity = "medium" -> 4
      [] severity = "low" -> 2
      [] OTHER -> 1

\* lines 287-295; category and effort are read off the texts of the issue
\* and are not part of the model
recommendationOf(issue) ==
    [ priority |-> severityPriority(issue.severity),
      impact |-> IF issue.severity \in { "critical", "high" } THEN "high"
                 ELSE IF issue.severity = "medium" THEN "medium" ELSE "low",
      relatedIssue |-> issue.id ]

\* recommendations.sort((a, b) => b.priority - a.priority): stable
RECURSIVE byPriorityDescending(_)
byPriorityDescending(recommendations) ==
    IF recommendations = <<>> THEN <<>>
    ELSE LET rest == byPriorityDescending(SubSeq(recommendations, 1, Len(recommendations) - 1))
             x == recommendations[Len(recommendations)]
         IN SelectSeq(rest, LAMBDA r : r.priority >= x.priority) \o << x >>
              \o SelectSeq(rest, LAMBDA r : r.priority < x.priority)

generateRecommendations(issues_) ==
    byPriorityDescending([ i \in DOMAIN issues_ |-> recommendationOf(issues_[i]) ])

\* --------------------------------------------------------- pod-log-parser
\* A line of a pod log is what the expressions of parsePodLogs can tell
\* about it: blank = line.trim() is empty; ts = NULL when neither the leading
\* timestamp nor a JSON "timestamp" is found, else the one-element sequence
\* of the string handed to new Date(); request = NULL, else the one-element
\* sequence of the first '"METHOD path HTTP/x.y" ddd' of the line; uvicorn =
\* that request comes after 'INFO: ip:port - '.  An endpoint is its text
\* (query string removed) and the words among health, readiness, liveness
\* and metrics that occur in it.  The level counters, the health-check
\* counter, serviceName and notableEvents do not read or write the request
\* counters and are left out.
BUCKET_MS == FIVE_MIN_MS

NewSummary ==
    [ totalLines |-> 0, apiRequests |-> 0, firstTimestamp |-> NULL, lastTimestamp |-> NULL,
      httpCodes |-> EmptyObj, endpoints |-> EmptyObj, timeBuckets |-> EmptyObj ]
\* the summary and lastKnownBucket
NewPodParse == [summary |-> NewSummary, lastKnownBucket |-> NULL]

\* new Date(str), NULL when getTime() is NaN
podDate(ts) == IF ts = NULL THEN NULL ELSE parseIsoTimestamp(ts[1])

\* a bucket timestamp is NULL or the one-element sequence of its value
getBucket(ts) ==
    IF ts = NULL \/ podDate(ts) = NULL THEN NULL
    ELSE << (ToNumber(podDate(ts)) \div BUCKET_MS) * BUCKET_MS >>

ensureBucket(timeBuckets, bucketTs) ==
    IF bucketTs[1] \in DOMAIN timeBuckets THEN timeBuckets
    ELSE timeBuckets @@ (bucketTs[1] :> [lines |-> 0, apiReqs |-> 0, endpoints |-> EmptyObj])

\* line.match(/"(GET|POST|PUT|DELETE|PATCH)\s+([^\s"]+)\s+HTTP\/\d\.\d"\s+(\d{3})/)
httpMatch(line) == line.request
\* line.match(/INFO:\s+[\d.]+:\d+\s+-\s+"(GET|...)\s+([^\s"]+)\s+HTTP\/\d\.\d"\s+(\d{3})/):
\* the same expression after the INFO: prefix
httpAlt(line) == IF line.uvicorn THEN line.request ELSE NULL

\* endpoint !== '/' && !/health|readiness|liveness/i.test(endpoint)
trackedEndpoint(endpoint) ==
    endpoint.text # "/" /\ endpoint.words \cap { "health", "readiness", "liveness" } = {}
\* !/metrics|health/i.test(endpoint)
trackedEndpointAlt(endpoint) == endpoint.words \cap { "metrics", "health" } = {}

\* lines 132-143 and 153-162: the counters of one matched request
countRequest(summary, bucketTs, request, tracked) ==
    LET key == << request.method, request.endpoint.text >>
        coded == [summary EXCEPT !.httpCodes = Bump(@, request.code, 1)]
        counted == [coded EXCEPT !.apiRequests = @ + 1, !.endpoints = Bump(@, key, 1)]
    IN IF ~tracked THEN coded
       ELSE IF bucketTs = NULL THEN counted
       ELSE [counted EXCEPT !.timeBuckets =
                [ensureBucket(@, bucketTs) EXCEPT
                    ![bucketTs[1]].apiReqs = @ + 1,
                    ![bucketTs[1]].endpoints = Bump(@, key, 1)]]

\* lines 66-85
trackTimestamps(summary, ts) ==
    IF podDate(ts) = NULL THEN summary
    ELSE [summary EXCEPT
            !.firstTimestamp = IF ~Truthy(@) \/ ToNumber(podDate(ts)) < ToNumber(@)
                                   THEN podDate(ts) ELSE @,
            !.lastTimestamp = IF ~Truthy(@) \/ ToNumber(podDate(ts)) > ToNumber(@)
                                  THEN podDate(ts) ELSE @]

\* One iteration of the for-await loop of parsePodLogs.
podLogLine(pp, line) ==
    LET counted == [pp.summary EXCEPT !.totalLines = @ + 1]
        bucketTs == IF getBucket(line.ts) # NULL THEN getBucket(line.ts)
                    ELSE pp.lastKnownBucket
        stamped == trackTimestamps(counted, line.ts)
        bucketed == IF bucketTs = NULL THEN stamped
                    ELSE [stamped EXCEPT !.timeBuckets =
                            [ensureBucket(@, bucketTs) EXCEPT ![bucketTs[1]].lines = @ + 1]]
        first == IF httpMatch(line) = NULL THEN bucketed
                 ELSE countRequest(bucketed, bucketTs, httpMatch(line)[1],
                                   trackedEndpoint(httpMatch(line)[1].endpoint))
        second == IF httpAlt(line) = NULL THEN first
                  ELSE countRequest(first, bucketTs, httpAlt(line)[1],
                                    trackedEndpointAlt(httpAlt(line)[1].endpoint))
    IN IF line.blank THEN [pp EXCEPT !.summary = counted]
       ELSE [summary |-> second, lastKnownBucket |-> bucketTs]

\* lines 186-206: timeBuckets becomes timeBucketsArray, ascending by t
endOfPodLog(pp) ==
    LET keys == ascending(DOMAIN pp.summary.timeBuckets) IN
    [ totalLines |-> pp.summary.totalLines,
      apiRequests |-> pp.summary.apiRequests,
      firstTimestamp |-> pp.summary.firstTimestamp,
      lastTimestamp |-> pp.summary.lastTimestamp,
      httpCodes |-> pp.summary.httpCodes,
      endpoints |-> pp.summary.endpoints,
      timeBucketsArray |->
          [ b \in DOMAIN keys |->
              [ t |-> keys[b],
                l |-> pp.summary.timeBuckets[keys[b]].lines,
                a |-> pp.summary.timeBuckets[keys[b]].apiReqs ] ] ]

\* ------------------------------------------------------------------ input
PodApi == << "api", "7d9f", "x2k" >>
PodRedis == << "redis" >>

\* rasaBot / botId: what RASA_BOT_RE / BOT_ID_RE capture in the text
Text(tagged, kw, hits, at) ==
    [tagged |-> tagged, kw |-> kw, hits |-> hits, at |-> at, rasaBot |-> NULL, botId |-> NULL]
PlainText == Text({}, {}, {}, FALSE)
\* "Error: connect ECONNREFUSED 10.0.0.5:6379"
RedisText == Text({}, {"error"}, {"redis_connection"}, FALSE)
\* "[error] warn: status 503 for bot 12ab-34, timeout of 30s exceeded"
MultiText ==
    [ Text({"error"}, {"warn"}, {"timeout_generic", "http_5xx"}, FALSE)
        EXCEPT !.rasaBot = << "12ab-34" >> ]
\* ESC[0m followed by "    at errorHandler (error.js:12)"
StackText == Text({}, {"error"}, {"stack_trace"}, TRUE)

TsStrings == { TsStr(FALSE, 0), TsStr(TRUE, 1), TsStr(TRUE, 2) }

RecordLineOf(pod, tsStr, rawMessage) ==
    [rec |-> TRUE, at |-> FALSE, pod |-> pod, tsStr |-> tsStr, rawMessage |-> rawMessage]
\* a line POD_LINE_RE does not match; at = it matches /^\s+at\s/
OtherLine(at) ==
    [rec |-> FALSE, at |-> at, pod |-> <<>>, tsStr |-> TsStr(FALSE, 0), rawMessage |-> PlainText]

Shapes == { <<PodApi, PlainText>>, <<PodRedis, RedisText>>,
            <<PodApi, MultiText>>, <<PodRedis, StackText>> }

\* the lines of the line-level specification
ParseLines ==
    { RecordLineOf(sh[1], ts, sh[2]) : sh \in Shapes, ts \in TsStrings }
        \cup { OtherLine(TRUE), OtherLine(FALSE) }

\* the lines of the classification specification
ClassifyLines ==
    { RecordLineOf(sh[1], ts, sh[2]) :
        sh \in { <<PodApi, MultiText>>, <<PodRedis, RedisText>> }, ts \in TsStrings }

\* the lines of the specification of consecutive files
FilesLines ==
    { RecordLineOf(PodRedis, TsStr(TRUE, 1), StackText),
      RecordLineOf(PodApi, TsStr(TRUE, 2), PlainText),
      OtherLine(TRUE) }

\* the one line of the specification of unreadable files
MainLines == { RecordLineOf(PodApi, TsStr(TRUE, 1), PlainText) }

\* the lines of the whole-run specification
PipelineLines == { RecordLineOf(PodApi, ts, PlainText) : ts \in TsStrings }

StartTimes == { NULL, Date(2) }
EndTimes == { NULL, Date(1) }

\* A metrics file of the archive: whether fs.readFileSync can read it, and
\* its lines.
UnreadableFile == [readable |-> FALSE, lines |-> <<>>]
ReadableFile(lines) == [readable |-> TRUE, lines |-> lines]
\* the archives of at most n files with the given contents
ArchivesOf(files, n) == UNION { [1..k -> files] : k \in 0..n }

Api == Word("api")
DeploymentsColumns == TextLine(<< Word("DEPLOYMENT"), Word("DESIRED"), Word("READY") >>)
DeploymentRow(name, desired) == TextLine(<< name, Digits(desired), Digits(desired) >>)
\* a file with a banner and a deployments section of the given rows
DeploymentsFile(stamp, rows) ==
    ReadableFile(<< BannerLine(stamp), SectionLine("deployments"), DeploymentsColumns >> \o rows)

\* the metrics files of the specification of the metrics analysis: banners
\* with the instants 1 and 2 or with a date that does not parse, and the
\* deployment api listed with 2 or 4 replicas, not at all, or twice
MetricsStamps == { TsStr(FALSE, 0), TsStr(TRUE, 1), TsStr(TRUE, 2) }
DeploymentRows ==
    { <<>>, << DeploymentRow(Api, 2) >>, << DeploymentRow(Api, 4) >>,
      << DeploymentRow(Api, 4), DeploymentRow(Api, 2) >> }
AnalysisMetricsFiles ==
    { DeploymentsFile(stamp, rows) : stamp \in MetricsStamps, rows \in DeploymentRows }

\* the metrics files of the specification of unreadable files
MainMetricsFiles == { UnreadableFile, DeploymentsFile(TsStr(TRUE, 1), << DeploymentRow(Api, 2) >>) }

\* the lines of the specification of one metrics file: the header of every
\* section that has a column-header row, the three column-header rows, and a
\* well-formed data row of each layout
NodesColumns ==
    TextLine(<< Word("NAME"), Word("CPU(cores)"), Word("CPU%"), Word("MEMORY(bytes)"),
                Word("MEMORY%") >>)
PodNameColumns ==
    TextLine(<< Word("POD_NAME"), Word("TOTAL"), Word("IDLE"), Word("ACTIVE"), Word("MAX_SEC") >>)
NodeRow ==
    TextLine(<< Word("node-1"), Field(Num(250), "m"), Field(Num(12), "%"),
                Field(Num(512), "Mi"), Field(Num(40), "%") >>)
PodRow == TextLine(<< Word("api-7f9c"), Field(Num(12), "m"), Field(Num(34), "Mi") >>)
DbConnectionsRow == TextLine(<< Word("api-7f9c"), Digits(3), Digits(1), Digits(2), Digits(5) >>)
MetricsLines ==
    { SectionLine(name) : name \in GatedSections }
      \cup { NodesColumns, DeploymentsColumns, PodNameColumns }
      \cup { NodeRow, PodRow, DeploymentRow(Api, 2), DbConnectionsRow }
SeqsUpTo(lines, n) == UNION { [1..k -> lines] : k \in 0..n }
\* the archives of one readable metrics file of at most MaxMetricsLines lines
OneMetricsFile == { << ReadableFile(lines) >> : lines \in SeqsUpTo(MetricsLines, MaxMetricsLines) }

\* the lines of the specification of db_debug.log: the blank line, a date
\* stamp that parseDbTimestamp reads and one it does not, the column-header
\* row, a row of four fields, and two rows of eight fields
Chars(text) ==
    CASE text = "" -> <<>>
      [] text = "root" -> << "r", "o", "o", "t" >>
      [] text = "10.0.0.7" -> << "1", "0", ".", "0", ".", "0", ".", "7" >>
      [] text = "NULL" -> << "N", "U", "L", "L" >>
      [] text = "app" -> << "a", "p", "p" >>
      [] text = "crm" -> << "c", "r", "m" >>
      [] text = "Query" -> << "Q", "u", "e", "r", "y" >>
      [] text = "Sleep" -> Sleep
      [] text = "Daemon" -> Daemon
      [] text = "executing" -> << "e", "x", "e", "c", "u", "t", "i", "n", "g" >>
      [] text = "ab1" -> << "a", "b", "1" >>
      [] text = "ab2" -> << "a", "b", "2" >>
      [] text = "cd" -> << "c", "d" >>
ConnectionRow(id, db, command, time, info) ==
    DbRowLine(<< Digits(id), Chars("root"), Chars("10.0.0.7"), Chars(db), Chars(command),
                 Digits(time), Chars("executing"), Chars(info) >>)
ShortRow == DbRowLine(<< Digits(7), Chars("root"), Chars("10.0.0.7"), Chars("app") >>)
DbLines ==
    { DbBlankLine, DbStampLine(TsStr(TRUE, 1)), DbStampLine(TsStr(FALSE, 0)), DbColumnsLine,
      ShortRow, ConnectionRow(1, "app", "Query", 5, "ab1"),
      ConnectionRow(2, "NULL", "Sleep", 9, "NULL") }

\* the lines of the specification of the long-running queries: a date stamp
\* and connection rows, each with its own Id, that differ in command, elapsed
\* time, database and query text (two of them with query texts that are
\* equal in their first QUERY_CHARS characters)
QueryLines ==
    { DbStampLine(TsStr(TRUE, 1)),
      ConnectionRow(1, "app", "Query", 120, "ab1"),
      ConnectionRow(2, "app", "Query", 90, "ab2"),
      ConnectionRow(3, "NULL", "Query", 61, "NULL"),
      ConnectionRow(4, "app", "Sleep", 120, "NULL"),
      ConnectionRow(5, "NULL", "Daemon", 100, "NULL"),
      ConnectionRow(6, "crm", "Query", 60, "cd"),
      ConnectionRow(7, "crm", "Query", 70, "cd") }

\* the archives of the specification of the issues.  Error log: a record
\* that matches oom_killed and one that matches lock_failure.
OomText == Text({}, {"error"}, {"oom_killed"}, FALSE)
LockText == Text({}, {"error"}, {"lock_failure"}, FALSE)
IssueLines ==
    { RecordLineOf(PodApi, TsStr(TRUE, 1), OomText), RecordLineOf(PodApi, TsStr(TRUE, 2), LockText) }
\* Metrics files: the deployments api and web with 2 or 4 replicas, and one
\* node at the given CPU and memory percentages.
Web == Word("web")
NodeRowAt(cpu, memory) ==
    TextLine(<< Word("node-1"), Field(Num(250), "m"), Field(Num(cpu), "%"),
                Field(Num(512), "Mi"), Field(Num(memory), "%") >>)
IssueFile(stamp, api, web, cpu, memory) ==
    ReadableFile(<< BannerLine(TsStr(TRUE, stamp)),
                    SectionLine("deployments"), DeploymentsColumns,
                    DeploymentRow(Api, api), DeploymentRow(Web, web),
                    SectionLine("nodes"), NodesColumns, NodeRowAt(cpu, memory) >>)
IssueMetricsFiles ==
    { IssueFile(1, 2, 2, 12, 40), IssueFile(2, 4, 4, 90, 95),
      IssueFile(2, 4, 2, 80, 40), IssueFile(1, 2, 4, 81, 40) }
\* db_debug.log: a date stamp and a query that has run for 120 seconds.
IssueDbLines == { DbStampLine(TsStr(TRUE, 1)), ConnectionRow(1, "app", "Query", 120, "ab1") }

\* the lines of the specification of sampled and classified events: an
\* OOM kill, a refused Redis connection and a stack frame held in stackBuffer
RetainedLines ==
    { RecordLineOf(PodApi, TsStr(TRUE, 1), OomText),
      RecordLineOf(PodRedis, TsStr(TRUE, 2), RedisText),
      RecordLineOf(PodRedis, TsStr(TRUE, 1), StackText) }

\* the lines of the pod-log specification: a blank line, log lines with a
\* leading timestamp (one that new Date() rejects among them), access-log
\* lines '10.0.0.9 - "GET /api/v1/process HTTP/1.1" 200' and
\* '... "GET /health HTTP/1.1" 200', and uvicorn access-log lines
\* 'INFO:     10.0.0.9:41822 - "POST /webhooks/rest/webhook HTTP/1.1" 200',
\* '... "GET /metrics HTTP/1.1" 200' and '... "GET / HTTP/1.1" 404'
Endpoint(text, words) == [text |-> text, words |-> words]
Request(method, endpoint, code) == << [method |-> method, endpoint |-> endpoint, code |-> code] >>
PodLogLine(blank, ts, request, uvicorn) ==
    [blank |-> blank, ts |-> ts, request |-> request, uvicorn |-> uvicorn]
PodLogLines ==
    { PodLogLine(TRUE, NULL, NULL, FALSE),
      PodLogLine(FALSE, << TsStr(TRUE, 1) >>, NULL, FALSE),
      PodLogLine(FALSE, << TsStr(TRUE, BUCKET_MS + 1) >>, NULL, FALSE),
      PodLogLine(FALSE, << TsStr(FALSE, 0) >>, NULL, FALSE),
      PodLogLine(FALSE, NULL, Request("GET", Endpoint("/api/v1/process", {}), 200), FALSE),
      PodLogLine(FALSE, NULL, Request("GET", Endpoint("/health", { "health" }), 200), FALSE),
      PodLogLine(FALSE, NULL,
                 Request("POST", Endpoint("/webhooks/rest/webhook", {}), 200), TRUE),
      PodLogLine(FALSE, NULL, Request("GET", Endpoint("/metrics", { "metrics" }), 200), TRUE),
      PodLogLine(FALSE, NULL, Request("GET", Endpoint("/", {}), 404), TRUE) }

\* the lines of the specification of the sections of one metrics file: four
\* section headers, two column-header rows and a row of each of three layouts
StatusRow == TextLine(<< Digits(3), Word("Running") >>)
FrameLines ==
    { SectionLine(name) : name \in { "nodes", "pods", "deployments", "podStatus" } }
      \cup { NodesColumns, DeploymentsColumns, NodeRow, DeploymentRow(Api, 2), StatusRow }
SectionsOfOneFile == { << ReadableFile(lines) >> : lines \in SeqsUpTo(FrameLines, MaxFrameLines) }

\* ------------------------------------------------------------------ state
VARIABLES
    fileCount,        \* filePaths.length
    options,          \* [startTime, endTime]
    phase,            \* "parsing" during Phase 1, "done" once the result is
                      \* returned, "fatal" when main's catch has ended the run
    parse,            \* the local state of the parseErrorLog call in progress
    read,             \* read[i]: the lines read from file i so far
    fileResults,      \* fileResults of parseAllErrorLogs
    totalEventCount,
    combinedStats,
    allEvents,        \* the returned events
    eventsDropped,    \* the local eventsDropped of Phase 2
    metricsFiles,     \* manifest.metricsFiles: each file readable or not, and its lines
    metricsRead,      \* lines of the metrics file consumed by parseMetricsFile's loop
    metricsParse,     \* the locals of parseMetricsFile
    metricsData,      \* main's metricsData once Step 3 is over, NULL before
    dbDebugLog,       \* manifest.dbDebugLog: TRUE when the archive has a db_debug.log
    dbRead,           \* the lines of db_debug.log read so far
    dbParse,          \* the locals of parseDbDebug
    dbData,           \* main's dbData once Step 4 is over, NULL before
    errorAnalysis,    \* Step 5: the three analyses, NULL before
    metricsAnalysis,
    dbAnalysis,
    issues,           \* Step 5: the issues of detectIssues, NULL before
    recommendations,  \* Step 5: the list of generateRecommendations, NULL before
    podRead,          \* the lines of the pod log read so far
    podParse,         \* the locals of parsePodLogs for the file
    podSummary        \* the summary pushed to results, NULL before

errorLogVars == << fileCount, options, phase, parse, read, fileResults, totalEventCount,
                   combinedStats, allEvents, eventsDropped >>
metricsVars == << metricsFiles, metricsRead, metricsParse, metricsData >>
dbVars == << dbDebugLog, dbRead, dbParse, dbData >>
analysisVars == << errorAnalysis, metricsAnalysis, dbAnalysis, issues, recommendations >>
podVars == << podRead, podParse, podSummary >>
\* what Steps 3 to 5 of main work on
laterSteps == << metricsVars, dbVars, analysisVars, podVars >>
vars == << errorLogVars, metricsVars, dbVars, analysisVars, podVars >>

InitWith(counts) ==
    /\ fileCount \in counts
    /\ options \in [startTime : StartTimes, endTime : EndTimes]
    /\ phase = "parsing"
    /\ parse = NewParse(1)
    /\ read = [i \in 1..fileCount |-> <<>>]
    /\ fileResults = <<>>
    /\ totalEventCount = 0
    /\ combinedStats = NewCombinedStats(fileCount)
    /\ allEvents = <<>>
    /\ eventsDropped = 0

\* the rest of the archive, and Steps 3 to 5 not begun
InitLater(archives, dbLogs) ==
    /\ metricsFiles \in archives
    /\ metricsRead = 0
    /\ metricsParse = NewMetricsParse(1)
    /\ metricsData = NULL
    /\ dbDebugLog \in dbLogs
    /\ dbRead = <<>>
    /\ dbParse = NewDbParse
    /\ dbData = NULL
    /\ errorAnalysis = NULL
    /\ metricsAnalysis = NULL
    /\ dbAnalysis = NULL
    /\ issues = NULL
    /\ recommendations = NULL
    /\ podRead = <<>>
    /\ podParse = NewPodParse
    /\ podSummary = NULL

\* neither --start nor --end is given (the options reach parseAllErrorLogs
\* only)
NoTimeWindow == options = [startTime |-> NULL, endTime |-> NULL]

\* an archive with neither metrics files nor db_debug.log
NoLaterInput == InitLater({ <<>> }, { FALSE })

LinesRead == combinedStats.totalLines + parse.stats.totalLines

\* parseErrorLog reads one more line of the current file.
ReadLine(lines, maxLines) ==
    /\ phase = "parsing"
    /\ Len(fileResults) < fileCount
    /\ LinesRead < maxLines
    /\ \E line \in lines :
        /\ parse' = parseLine(parse, line, options.startTime, options.endTime)
        /\ read' = [read EXCEPT ![parse.filePath] = Append(@, line)]
    /\ UNCHANGED << fileCount, options, phase, fileResults, totalEventCount,
                    combinedStats, allEvents, eventsDropped >>
    /\ UNCHANGED laterSteps

\* (the pending record is not flushed when the file ends and is handed to the
\* parse of the next file)
EndOfFileKeepingSlot ==
    /\ phase = "parsing"
    /\ Len(fileResults) < fileCount
    /\ fileResults' = Append(fileResults, [events |-> parse.events, stats |-> parse.stats])
    /\ totalEventCount' = totalEventCount + Len(parse.events)
    /\ combinedStats' = mergeStats(combinedStats, parse.filePath, parse.stats)
    /\ parse' = [NewParse(parse.filePath + 1) EXCEPT !.stackBuffer = parse.stackBuffer]
    /\ UNCHANGED << fileCount, options, phase, read, allEvents, eventsDropped >>
    /\ UNCHANGED laterSteps

\* The current file ends: parseErrorLog returns and parseAllErrorLogs merges
\* its result, then goes on to the next file path.
EndOfFile ==
    /\ phase = "parsing"
    /\ Len(fileResults) < fileCount
    /\ LET result == endOfParse(parse) IN
        /\ fileResults' = Append(fileResults, [events |-> result.events, stats |-> result.stats])
        /\ totalEventCount' = totalEventCount + Len(result.events)
        /\ combinedStats' = mergeStats(combinedStats, parse.filePath, result.stats)
    /\ parse' = NewParse(parse.filePath + 1)
    /\ UNCHANGED << fileCount, options, phase, read, allEvents, eventsDropped >>
    /\ UNCHANGED laterSteps

\* The stream of the current file fails when it is opened (the file cannot be
\* read): nothing in parseErrorLog or parseAllErrorLogs (lines 172-174)
\* catches the error, so it reaches main().catch, which ends the process.
OpenFails ==
    /\ phase = "parsing"
    /\ Len(fileResults) < fileCount
    /\ parse.stats.totalLines = 0
    /\ phase' = "fatal"
    /\ UNCHANGED << fileCount, options, parse, read, fileResults, totalEventCount,
                    combinedStats, allEvents, eventsDropped >>
    /\ UNCHANGED laterSteps

\* Phase 2 and the return of parseAllErrorLogs.  (With no error log main
\* does not make the call and keeps its default errorData, which holds the
\* same empty list of events.)
Finish ==
    /\ phase = "parsing"
    /\ Len(fileResults) = fileCount
    /\ LET dropped == countDropped(fileResults, totalEventCount, fileCount) IN
        /\ eventsDropped' = dropped
        /\ combinedStats' =
             IF dropped > 0
                THEN [k \in DOMAIN combinedStats \cup {"eventsDropped"} |->
                        IF k = "eventsDropped" THEN dropped ELSE combinedStats[k]]
                ELSE combinedStats
    /\ allEvents' = sortEvents(collectEvents(fileResults, totalEventCount, fileCount))
    /\ phase' = "done"
    /\ UNCHANGED << fileCount, options, parse, read, fileResults, totalEventCount >>
    /\ UNCHANGED laterSteps

\* ---- Step 3 of main
MetricsPending == phase = "done" /\ metricsData = NULL

\* parseAllMetrics as one step.  fs.readFileSync throws for a file that
\* cannot be read; neither parseMetricsFile, parseAllMetrics nor main catches
\* it, so it reaches main().catch.  With no metrics file the call is not made.
ParseAllMetrics ==
    /\ MetricsPending
    /\ metricsRead = 0
    /\ IF \E i \in DOMAIN metricsFiles : ~metricsFiles[i].readable
          THEN phase' = "fatal" /\ UNCHANGED metricsData
          ELSE /\ metricsData' = IF metricsFiles = <<>> THEN DefaultMetricsData
                                 ELSE parseAllMetrics(metricsFiles)
               /\ UNCHANGED phase
    /\ UNCHANGED << fileCount, options, parse, read, fileResults, totalEventCount,
                    combinedStats, allEvents, eventsDropped >>
    /\ UNCHANGED << metricsFiles, metricsRead, metricsParse, dbVars, analysisVars, podVars >>

\* The same call on an archive with one metrics file, one turn of
\* parseMetricsFile's loop at a time.
MetricsReadLine ==
    /\ MetricsPending
    /\ Len(metricsFiles) = 1 /\ metricsFiles[1].readable
    /\ metricsRead < Len(metricsFiles[1].lines)
    /\ metricsParse' = parseMetricsLine(metricsParse, metricsFiles[1].lines[metricsRead + 1])
    /\ metricsRead' = metricsRead + 1
    /\ UNCHANGED << errorLogVars, podVars, metricsFiles, metricsData, dbVars, analysisVars >>

MetricsEndOfFile ==
    /\ MetricsPending
    /\ Len(metricsFiles) = 1 /\ metricsFiles[1].readable
    /\ metricsRead = Len(metricsFiles[1].lines)
    /\ metricsData' = metricsResult(<< metricsParse.snapshot >>)
    /\ UNCHANGED << errorLogVars, podVars, metricsFiles, metricsRead, metricsParse, dbVars,
                    analysisVars >>

\* ---- Step 4 of main
DbPending == metricsData # NULL /\ dbData = NULL

\* no db_debug.log: the call is not made
DbSkipped ==
    /\ DbPending
    /\ ~dbDebugLog
    /\ dbData' = DefaultDbData
    /\ UNCHANGED << errorLogVars, podVars, metricsVars, dbDebugLog, dbRead, dbParse, analysisVars >>

\* parseDbDebug reads one more line.
DbReadLine(lines, maxLines) ==
    /\ DbPending
    /\ dbDebugLog
    /\ Len(dbRead) < maxLines
    /\ \E line \in lines :
        /\ dbParse' = parseDbLine(dbParse, line)
        /\ dbRead' = Append(dbRead, line)
    /\ UNCHANGED << errorLogVars, podVars, metricsVars, dbDebugLog, dbData, analysisVars >>

\* db_debug.log ends: parseDbDebug returns.
DbEndOfFile ==
    /\ DbPending
    /\ dbDebugLog
    /\ dbData' = endOfDbDebug(dbParse)
    /\ UNCHANGED << errorLogVars, podVars, metricsVars, dbDebugLog, dbRead, dbParse, analysisVars >>

\* ---- Step 5 of main
Classify ==
    /\ dbData # NULL
    /\ errorAnalysis = NULL
    /\ errorAnalysis' = classifyErrors(allEvents, FIVE_MIN_MS)
    /\ UNCHANGED << errorLogVars, podVars, metricsVars, dbVars, metricsAnalysis, dbAnalysis, issues,
                    recommendations >>

AnalyzeMetrics ==
    /\ errorAnalysis # NULL
    /\ metricsAnalysis = NULL
    /\ metricsAnalysis' = analyzeMetrics(metricsData.snapshots)
    /\ UNCHANGED << errorLogVars, podVars, metricsVars, dbVars, errorAnalysis, dbAnalysis, issues,
                    recommendations >>

AnalyzeDb ==
    /\ metricsAnalysis # NULL
    /\ dbAnalysis = NULL
    /\ dbAnalysis' = analyzeDbConnections(dbData.snapshots)
    /\ UNCHANGED << errorLogVars, podVars, metricsVars, dbVars, errorAnalysis, metricsAnalysis,
                    issues,
                    recommendations >>

DetectIssues ==
    /\ dbAnalysis # NULL
    /\ issues = NULL
    /\ issues' = detectIssues(errorAnalysis, metricsAnalysis, dbAnalysis)
    /\ UNCHANGED << errorLogVars, podVars, metricsVars, dbVars, errorAnalysis, metricsAnalysis,
                    dbAnalysis, recommendations >>

GenerateRecommendations ==
    /\ issues # NULL
    /\ recommendations = NULL
    /\ recommendations' = generateRecommendations(issues)
    /\ UNCHANGED << errorLogVars, podVars, metricsVars, dbVars, errorAnalysis, metricsAnalysis,
                    dbAnalysis, issues >>

\* ---- parsePodLogs over one pod log
\* The for-await loop reads one more line.
PodReadLine(lines, maxLines) ==
    /\ podSummary = NULL
    /\ Len(podRead) < maxLines
    /\ \E line \in lines :
        /\ podParse' = podLogLine(podParse, line)
        /\ podRead' = Append(podRead, line)
    /\ UNCHANGED << errorLogVars, metricsVars, dbVars, analysisVars, podSummary >>

\* The pod log ends: the summary is completed and pushed to results.
PodEndOfFile ==
    /\ podSummary = NULL
    /\ podSummary' = endOfPodLog(podParse)
    /\ UNCHANGED << errorLogVars, metricsVars, dbVars, analysisVars, podRead, podParse >>

\* a run of parseAllErrorLogs over up to MaxFiles files
Init == InitWith(0..MaxFiles) /\ NoLaterInput
Next == ReadLine(PipelineLines, MaxTotalLines) \/ EndOfFile \/ Finish
Spec == Init /\ [][Next]_vars

\* a run over one file, with every kind of line
InitParse == InitWith({1}) /\ NoLaterInput
NextParse == ReadLine(ParseLines, MaxParseLines) \/ EndOfFile \/ Finish
SpecParse == InitParse /\ [][NextParse]_vars

\* a run over MaxFiles files of stack records and continuation lines
InitFiles == InitWith({ MaxFiles }) /\ NoLaterInput
NextFiles == ReadLine(FilesLines, MaxParseLines) \/ EndOfFile \/ Finish
SpecFiles == InitFiles /\ [][NextFiles]_vars

\* Steps 2 and 3 of main over an archive whose files may be unreadable
InitMain == InitWith(0..MaxFiles) /\ InitLater(ArchivesOf(MainMetricsFiles, MaxFiles), { FALSE })
NextMain ==
    \/ ReadLine(MainLines, MaxFiles) \/ EndOfFile \/ OpenFails \/ Finish
    \/ ParseAllMetrics
SpecMain == InitMain /\ [][NextMain]_vars

\* main over an archive of up to MaxMetricsFiles metrics files and nothing
\* else, up to the analysis of the metrics
InitMetrics == InitWith({ 0 }) /\ NoTimeWindow /\ InitLater(ArchivesOf(AnalysisMetricsFiles, MaxMetricsFiles), { FALSE })
NextMetrics == Finish \/ ParseAllMetrics \/ DbSkipped \/ Classify \/ AnalyzeMetrics
SpecMetrics == InitMetrics /\ [][NextMetrics]_vars

\* a run over an archive of one metrics file and nothing else, the file read
\* line by line
InitMetricsFile == InitWith({ 0 }) /\ NoTimeWindow /\ InitLater(OneMetricsFile, { FALSE })
NextMetricsFile == Finish \/ MetricsReadLine \/ MetricsEndOfFile
SpecMetricsFile == InitMetricsFile /\ [][NextMetricsFile]_vars

\* the same run over files of up to MaxFrameLines lines that pass from one
\* section to another
InitMetricsFrame == InitWith({ 0 }) /\ NoTimeWindow /\ InitLater(SectionsOfOneFile, { FALSE })
SpecMetricsFrame == InitMetricsFrame /\ [][NextMetricsFile]_vars

\* a run over an archive that holds db_debug.log and nothing else, up to the
\* return of parseDbDebug
InitDb == InitWith({ 0 }) /\ NoTimeWindow /\ InitLater({ <<>> }, { TRUE })
NextDb == Finish \/ ParseAllMetrics \/ DbReadLine(DbLines, MaxDbLines) \/ DbEndOfFile
SpecDb == InitDb /\ [][NextDb]_vars

\* a run over an archive that holds db_debug.log and nothing else, up to the
\* analysis of the database connections
InitDbQueries == InitDb
NextDbQueries ==
    \/ Finish \/ ParseAllMetrics
    \/ DbReadLine(QueryLines, MaxQueryLines) \/ DbEndOfFile
    \/ Classify \/ AnalyzeMetrics \/ AnalyzeDb
SpecDbQueries == InitDbQueries /\ [][NextDbQueries]_vars

\* a run of main over an archive with one error log, up to MaxIssueFiles
\* metrics files and db_debug.log, up to the recommendations
InitIssues ==
    /\ InitWith({ 1 }) /\ NoTimeWindow
    /\ InitLater(ArchivesOf(IssueMetricsFiles, MaxIssueFiles), { TRUE })
NextIssues ==
    \/ ReadLine(IssueLines, MaxIssueLines) \/ EndOfFile \/ Finish
    \/ ParseAllMetrics
    \/ DbReadLine(IssueDbLines, MaxIssueLines) \/ DbEndOfFile
    \/ Classify \/ AnalyzeMetrics \/ AnalyzeDb
    \/ DetectIssues \/ GenerateRecommendations
SpecIssues == InitIssues /\ [][NextIssues]_vars

\* a run over one file of records with and without a bot id, carried on to
\* the classification of its events
NextClassify ==
    \/ ReadLine(ClassifyLines, MaxParseLines) \/ EndOfFile \/ Finish
    \/ ParseAllMetrics \/ DbSkipped \/ Classify
SpecClassify == InitParse /\ [][NextClassify]_vars

\* a run over files of categorised records, more of them than MAX_EVENTS,
\* carried on to the classification of the events returned
InitRetained == InitWith(1..MaxFiles) /\ NoTimeWindow /\ NoLaterInput
NextRetained ==
    \/ ReadLine(RetainedLines, MaxTotalLines) \/ EndOfFile \/ Finish
    \/ ParseAllMetrics \/ DbSkipped \/ Classify
SpecRetained == InitRetained /\ [][NextRetained]_vars

\* parsePodLogs over one pod log of at most MaxPodLines lines
InitPodLogs == InitWith({ 0 }) /\ NoTimeWindow /\ NoLaterInput
NextPodLogs == PodReadLine(PodLogLines, MaxPodLines) \/ PodEndOfFile
SpecPodLogs == InitPodLogs /\ [][NextPodLogs]_vars

\* ================================================================= claims
Done == phase = "done"
\* Phase 2 took the sampling branch
Sampled == Done /\ totalEventCount > MAX_EVENTS
Counts == EventCounts(fileResults)
FinalAllocations == Allocations(Counts, fileCount)
InOutput(e) == \E k \in DOMAIN allEvents : allEvents[k] = e
\* the number of returned events that come from file i
Contribution(i) == Cardinality({k \in DOMAIN allEvents : allEvents[k].file = i})

\* C1 (as claimed): when a file with n events is sampled down to b events,
\* 1 <= b < n, its first event and its last event are both among the events
\* kept.
C1_FirstAndLastKept ==
    Sampled =>
        \A i \in DOMAIN fileResults :
            LET events == fileResults[i].events
                n == Len(events)
                b == FinalAllocations[i]
            IN (1 <= b /\ b < n) => (InOutput(events[1]) /\ InOutput(events[n]))

\* C2: the returned event list is never longer than MAX_EVENTS, and the
\* allocations of the files never add up to more than MAX_EVENTS.
C2_OutputWithinCap ==
    Done => /\ Len(allEvents) <= MAX_EVENTS
            /\ (totalEventCount > MAX_EVENTS => SumSeq(FinalAllocations) <= MAX_EVENTS)

C2_Witness == Sampled /\ fileCount >= 2 /\ Len(allEvents) = MAX_EVENTS

\* C3 (as claimed): when the total exceeds the cap M, every file i
\* contributes at least min(ci, floor(M / N)) events.
C3_AtLeastEqualShare ==
    Sampled =>
        \A i \in DOMAIN fileResults :
            Contribution(i) >= Min2(Counts[i], MAX_EVENTS \div fileCount)

\* C3 (amended): when the total exceeds the cap M, every file i contributes
\* at least min(ci, min(cap on the minimum, floor(M / N))) events.
C3_AtLeastGuaranteedMinimum ==
    Sampled =>
        \A i \in DOMAIN fileResults :
            Contribution(i) >=
                Min2(Counts[i], Min2(MIN_PER_FILE_CAP, MAX_EVENTS \div fileCount))

C3_Witness ==
    /\ Sampled
    /\ fileCount >= 2
    /\ \E i \in DOMAIN fileResults :
        /\ Contribution(i) < Counts[i]
        /\ Contribution(i) < MAX_EVENTS \div fileCount

\* C4 (as claimed): when the total exceeds MAX_EVENTS, exactly MAX_EVENTS
\* events are retained and eventsDropped = total - MAX_EVENTS.
C4_ExactlyCapRetained ==
    Sampled => /\ Len(allEvents) = MAX_EVENTS
               /\ eventsDropped = totalEventCount - MAX_EVENTS

\* C4 (amended): when the total exceeds MAX_EVENTS, at most MAX_EVENTS
\* events are retained and the reported eventsDropped is the total minus the
\* number retained, hence at least total - MAX_EVENTS.
C4_DroppedIsTotalMinusRetained ==
    Sampled => /\ Len(allEvents) <= MAX_EVENTS
               /\ eventsDropped = totalEventCount - Len(allEvents)
               /\ eventsDropped >= totalEventCount - MAX_EVENTS
               /\ "eventsDropped" \in DOMAIN combinedStats
               /\ combinedStats["eventsDropped"] = eventsDropped

C4_Witness == Sampled /\ Len(allEvents) < MAX_EVENTS /\ fileCount >= 2

\* C5: the returned list is in ascending order of timestamp, a null
\* timestamp counting as 0, and two events with equal timestamps are in file
\* order and, within a file, in line order; with or without sampling.
C5_SortedAndStable ==
    Done =>
        \A k \in 1..(Len(allEvents) - 1) :
            LET a == allEvents[k]
                b == allEvents[k + 1]
            IN /\ ToNumber(a.timestamp) <= ToNumber(b.timestamp)
               /\ ToNumber(a.timestamp) = ToNumber(b.timestamp) =>
                    \/ a.file < b.file
                    \/ (a.file = b.file /\ a.lineNo < b.lineNo)

\* sampling took place, the files were not in time order, and events of two
\* files tie, one of them on a null timestamp
C5_Witness ==
    /\ Sampled
    /\ \E k \in 1..(Len(allEvents) - 1) :
        /\ allEvents[k].timestamp = NULL
        /\ allEvents[k + 1].timestamp = NULL
        /\ allEvents[k].file < allEvents[k + 1].file
    /\ \E k \in 1..(Len(allEvents) - 1) :
        /\ allEvents[k].timestamp # NULL
        /\ allEvents[k].file > allEvents[k + 1].file

\* ---- the lines read, seen from the input side
GivenRange == options.startTime # NULL \/ options.endTime # NULL
\* the instant lies before startTime or after endTime; a timestamp that failed
\* to parse is compared as instant 0, which is how isInTimeRange reads it
OutsideRange(timestamp) ==
    \/ (options.startTime # NULL /\ ToNumber(timestamp) < options.startTime[1])
    \/ (options.endTime # NULL /\ ToNumber(timestamp) > options.endTime[1])
TimestampOf(line) == IF line.tsStr.valid THEN << line.tsStr.ms >> ELSE NULL
RetainedLine(line) == line.rec /\ ~OutsideRange(TimestampOf(line))
Numbers(lines) == [k \in 1..Len(lines) |-> k]
RetainedNumbers(lines) == SelectSeq(Numbers(lines), LAMBDA k : RetainedLine(lines[k]))
\* the number of the first record line after line k, Len(lines) + 1 if none
NextRecordAfter(lines, k) ==
    LET later == {j \in (k + 1)..Len(lines) : lines[j].rec} IN
    IF later = {} THEN Len(lines) + 1
    ELSE CHOOSE j \in later : \A j2 \in later : j <= j2
\* the continuation lines that belong to the record of line k
ContinuationsOf(lines, k) ==
    SelectSeq(Numbers(lines),
              LAMBDA j : /\ k < j
                         /\ j < NextRecordAfter(lines, k)
                         /\ ~lines[j].rec
                         /\ lines[j].at)
LineNos(events) == [k \in DOMAIN events |-> events[k].lineNo]
Emitted(ps) == ps.events \o ps.stackBuffer
Parsing == phase = "parsing" /\ parse.filePath <= fileCount
CurrentLines == read[parse.filePath]
BeginsStack(line) == line.rawMessage.at

\* one event per retained record line, in line order, each carrying the
\* continuation lines of its own record and of no other
EventsMatchLines(events, lines) ==
    /\ LineNos(events) = RetainedNumbers(lines)
    /\ \A k \in DOMAIN events :
        LET e == events[k]
            line == lines[e.lineNo]
        IN /\ e.pod = line.pod
           /\ e.timestamp = TimestampOf(line)
           /\ e.stackTrace =
                IF BeginsStack(line) THEN ContinuationsOf(lines, e.lineNo) ELSE <<>>

\* C6: every retained record line yields exactly one event, in the order of
\* the record lines; a record that begins a stack trace waits in the single
\* pending slot until the next record line of the file is read or the file
\* ends, and is then emitted once; a continuation line is appended to the
\* pending event only.
C6_OneEventPerRecord ==
    /\ Parsing =>
        /\ EventsMatchLines(Emitted(parse), CurrentLines)
        /\ Len(parse.stackBuffer) <= 1
        /\ \A k \in DOMAIN parse.stackBuffer :
            LET e == parse.stackBuffer[k] IN
            /\ BeginsStack(CurrentLines[e.lineNo])
            /\ NextRecordAfter(CurrentLines, e.lineNo) = Len(CurrentLines) + 1
        /\ \A k \in DOMAIN parse.events :
            LET e == parse.events[k] IN
            BeginsStack(CurrentLines[e.lineNo]) =>
                NextRecordAfter(CurrentLines, e.lineNo) <= Len(CurrentLines)
    /\ \A i \in DOMAIN fileResults : EventsMatchLines(fileResults[i].events, read[i])

\* a stack record has taken its continuation line and has been emitted by the
\* next record line, which is itself a stack record and now pending
C6_Witness ==
    /\ Parsing
    /\ \E k \in DOMAIN parse.events : Len(parse.events[k].stackTrace) = 1
    /\ parse.stackBuffer # <<>>

EverywhereEvents ==
    {parse.events[k] : k \in DOMAIN parse.events}
        \cup {parse.stackBuffer[k] : k \in DOMAIN parse.stackBuffer}
        \cup UNION {{fileResults[i].events[k] : k \in DOMAIN fileResults[i].events} :
                        i \in DOMAIN fileResults}
        \cup {allEvents[k] : k \in DOMAIN allEvents}

TablePosition(name) == CHOOSE i \in DOMAIN ERROR_PATTERNS : ERROR_PATTERNS[i] = name

\* C7: every event has a non-empty categories list: the names of the
\* patterns its message matches, in table order, or exactly 'uncategorized'
\* when it matches none; 'uncategorized' never appears beside another name.
C7_CategoriesNeverEmpty ==
    \A e \in EverywhereEvents :
        LET cats == e.categories
            hits == read[e.file][e.lineNo].rawMessage.hits
        IN /\ Len(cats) > 0
           /\ hits = {} => cats = << "uncategorized" >>
           /\ hits # {} =>
                /\ {cats[k] : k \in DOMAIN cats} = hits
                /\ \A k \in 1..(Len(cats) - 1) :
                    TablePosition(cats[k]) < TablePosition(cats[k + 1])
           /\ (\E k \in DOMAIN cats : cats[k] = "uncategorized") =>
                cats = << "uncategorized" >>

C7_Witness ==
    /\ \E e \in EverywhereEvents : e.categories = << "uncategorized" >>
    /\ \E e \in EverywhereEvents : e.categories = << "http_5xx", "timeout_generic" >>

StatsCountLines(stats, lines, emitted) ==
    /\ stats.totalLines = Len(lines)
    /\ stats.errorCount + stats.warningCount <= stats.totalLines
    /\ stats.errorCount + stats.warningCount <= emitted

\* C8: whatever lines have been read, totalLines is the number of lines read
\* and errorCount + warningCount is at most totalLines and at most the number
\* of events (the pending record included while the file is being read).
C8_LineAndLevelCounts ==
    /\ Parsing => StatsCountLines(parse.stats, CurrentLines, Len(Emitted(parse)))
    /\ \A i \in DOMAIN fileResults :
        StatsCountLines(fileResults[i].stats, read[i], Len(fileResults[i].events))

\* a finished file with a junk line, a continuation line that was dropped and
\* a filtered-out record, and an error counted
C8_Witness ==
    \E i \in DOMAIN fileResults :
        /\ \E k \in DOMAIN read[i] : ~read[i][k].rec /\ ~read[i][k].at
        /\ \E k \in DOMAIN read[i] : read[i][k].rec /\ ~RetainedLine(read[i][k])
        /\ fileResults[i].stats.errorCount = 1
        /\ fileResults[i].stats.totalLines = 3

\* the step reads one more line of the current file
ReadsLine == phase = "parsing" /\ read' # read
LineJustRead == read'[parse.filePath][Len(read'[parse.filePath])]

FilterFrame ==
    (ReadsLine /\ GivenRange /\ LineJustRead.rec
        /\ OutsideRange(TimestampOf(LineJustRead))) =>
            /\ parse'.stats = [parse.stats EXCEPT !.totalLines = @ + 1]
            /\ Emitted(parse') = Emitted(parse)
            /\ UNCHANGED << fileResults, totalEventCount, combinedStats, allEvents >>

AllInRange == GivenRange => \A e \in EverywhereEvents : ~OutsideRange(e.timestamp)

\* C9: with a start or end time given, reading a record line whose timestamp
\* lies outside the range adds no event and changes no statistic of the file
\* but totalLines; every event held anywhere, up to the returned list, lies
\* inside the range.
C9_OutOfRangeLineLeavesNoTrace == [][FilterFrame]_vars /\ []AllInRange

\* an out-of-range record line has just been read while a stack record was
\* pending, after a record that was retained
C9_Witness ==
    /\ Parsing
    /\ GivenRange
    /\ Len(CurrentLines) = 3
    /\ RetainedLine(CurrentLines[2]) /\ BeginsStack(CurrentLines[2])
    /\ CurrentLines[3].rec /\ ~RetainedLine(CurrentLines[3])
    /\ Len(parse.events) = 2

RetainedInstants(lines) ==
    {TimestampOf(lines[k])[1] :
        k \in {j \in DOMAIN lines : RetainedLine(lines[j]) /\ TimestampOf(lines[j]) # NULL}}
Earliest(instants) ==
    IF instants = {} THEN NULL
    ELSE << CHOOSE t \in instants : \A u \in instants : t <= u >>
Latest(instants) ==
    IF instants = {} THEN NULL
    ELSE << CHOOSE t \in instants : \A u \in instants : t >= u >>
FirstLastAreMinMax(stats, lines) ==
    /\ stats.firstTimestamp = Earliest(RetainedInstants(lines))
    /\ stats.lastTimestamp = Latest(RetainedInstants(lines))

\* C10 (as claimed): after any sequence of lines, firstTimestamp and
\* lastTimestamp are the least and the greatest non-null timestamp of the
\* retained records, null only if there is none; a record with a null
\* timestamp changes neither.
C10_NullTimestampIgnored ==
    /\ Parsing => FirstLastAreMinMax(parse.stats, CurrentLines)
    /\ \A i \in DOMAIN fileResults : FirstLastAreMinMax(fileResults[i].stats, read[i])

Classified == errorAnalysis # NULL
Matching(Test(_)) == Cardinality({ k \in DOMAIN allEvents : Test(allEvents[k]) })
TimelineTotal ==
    SumSeq([ b \in DOMAIN errorAnalysis.timeline |-> errorAnalysis.timeline[b].total ])
CountsIncludeUndated ==
    /\ \A i \in DOMAIN errorAnalysis.categories :
          LET c == errorAnalysis.categories[i] IN
          c.count = Matching(LAMBDA e : \E j \in DOMAIN e.categories : e.categories[j] = c.name)
    /\ \A i \in DOMAIN errorAnalysis.topPods :
          LET p == errorAnalysis.topPods[i] IN
          p.count = Matching(LAMBDA e : e.pod = p.name)
    /\ \A i \in DOMAIN errorAnalysis.topBots :
          LET b == errorAnalysis.topBots[i] IN
          b.count = Matching(LAMBDA e : e.botId = b.name)

\* C11 (as claimed): an event with a null timestamp is in no bucket of the
\* timeline of classifyErrors, so the bucket totals add up to the number of
\* events that have a timestamp, while the category, per-pod and per-bot
\* counts include it.
C11_NullTimestampInNoBucket ==
    Classified =>
        /\ TimelineTotal = Matching(LAMBDA e : e.timestamp # NULL)
        /\ CountsIncludeUndated

\* C12 (as claimed): a file that cannot be read does not end the run in a
\* fatal error (it contributes nothing and the other files are processed).
C12_UnreadableFileNotFatal == phase # "fatal"

\* every event is held by the parse of its own file and carries lines of
\* that file only; no file after the one being parsed has been read
OwnFile ==
    /\ \A i \in DOMAIN fileResults :
          /\ \A k \in DOMAIN fileResults[i].events : fileResults[i].events[k].file = i
          /\ EventsMatchLines(fileResults[i].events, read[i])
    /\ Parsing =>
          /\ parse.filePath = Len(fileResults) + 1
          /\ \A k \in DOMAIN Emitted(parse) : Emitted(parse)[k].file = parse.filePath
          /\ EventsMatchLines(Emitted(parse), CurrentLines)
    /\ \A i \in 1..fileCount : i > Len(fileResults) + 1 => read[i] = <<>>
\* a finished parse is left alone, and the next one starts, in input order,
\* with no events and an empty pending slot
FilesFrame ==
    /\ \A i \in DOMAIN fileResults :
          /\ i \in DOMAIN fileResults' /\ fileResults'[i] = fileResults[i]
          /\ read'[i] = read[i]
    /\ Len(fileResults') # Len(fileResults) =>
          /\ Len(fileResults') = Len(fileResults) + 1
          /\ parse'.filePath = parse.filePath + 1
          /\ parse'.events = <<>>
          /\ parse'.stackBuffer = <<>>

\* C13: parseAllErrorLogs has one file parse in progress at a time: files
\* are parsed in input order, a file is not read before the parse of the file
\* before it has returned, a finished parse is never touched again, and the
\* pending stack-trace slot starts empty in every file, so a continuation
\* line at the start of a file is attached to no event of an earlier file.
C13_OneParseAtATime == [][FilesFrame]_vars /\ []OwnFile

\* the first file ended on a record that begins a stack trace, and the second
\* file began with a continuation line, which that record did not take
C13_Witness ==
    /\ Len(fileResults) = 1
    /\ fileResults[1].events # <<>>
    /\ LET last == fileResults[1].events[Len(fileResults[1].events)] IN
          /\ BeginsStack(read[1][last.lineNo])
          /\ last.stackTrace = <<>>
    /\ read[2] # <<>>
    /\ read[2][1] = OtherLine(TRUE)

\* ---- the metrics
MetricsAnalysed == metricsAnalysis # NULL
Snapshots == metricsData.snapshots
ScalingEvents == metricsAnalysis.scalingEvents
\* the rows of deployment name in snapshot number k of the sorted list
RowsOf(k, name) == SelectSeq(Snapshots[k].deployments, LAMBDA d : d.name = name)
EventsOf(k, name) ==
    SelectSeq(ScalingEvents, LAMBDA e : e.snapshot = k /\ e.deployment = name)
DeploymentNames ==
    UNION { { Snapshots[k].deployments[i].name : i \in DOMAIN Snapshots[k].deployments } :
              k \in DOMAIN Snapshots }
FirstSeen(name) ==
    CHOOSE k \in DOMAIN Snapshots :
        /\ RowsOf(k, name) # <<>>
        /\ \A j \in 1..(k - 1) : RowsOf(j, name) = <<>>

\* C14: no scaling event belongs to the snapshot in which its deployment is
\* seen for the first time, be that the first snapshot or a later one.
C14_NoEventAtFirstSight ==
    MetricsAnalysed =>
        \A i \in DOMAIN ScalingEvents :
            ScalingEvents[i].snapshot # FirstSeen(ScalingEvents[i].deployment)

\* the deployment is missing from the first snapshot, is first seen in the
\* second one, and changes its replica count in the third
C14_Witness ==
    /\ MetricsAnalysed
    /\ Len(Snapshots) = 3
    /\ RowsOf(1, Api) = <<>>
    /\ RowsOf(2, Api) # <<>>
    /\ EventsOf(2, Api) = <<>>
    /\ EventsOf(3, Api) # <<>>

ListedOnce(k, name) == Len(RowsOf(k, name)) = 1
\* the one event of a change of name between snapshots k - 1 and k
ChangeEvent(k, name) ==
    [ snapshot |-> k, timestamp |-> Snapshots[k].timestamp, deployment |-> name,
      from |-> RowsOf(k - 1, name)[1].desired, to |-> RowsOf(k, name)[1].desired ]

MetricsParsed == metricsData # NULL
\* the snapshot of file number f, as parseMetricsFile returns it
ParsedFile(f) == parseMetricsFile(f, metricsFiles[f].lines)

\* C16: the snapshots returned by parseAllMetrics are the snapshots of the
\* files, one each, in ascending order of timestamp (a snapshot without a
\* timestamp counting as instant 0), whatever the order of the files; the
\* scaling events come in that order.
C16_SnapshotsAscending ==
    /\ MetricsParsed =>
          /\ Len(Snapshots) = Len(metricsFiles)
          /\ \A f \in DOMAIN metricsFiles :
                \E k \in DOMAIN Snapshots : Snapshots[k] = ParsedFile(f)
          /\ \A k \in DOMAIN Snapshots : Snapshots[k] = ParsedFile(Snapshots[k].file)
          /\ \A k \in 2..Len(Snapshots) :
                ToNumber(Snapshots[k - 1].timestamp) <= ToNumber(Snapshots[k].timestamp)
    /\ MetricsAnalysed =>
          \A i \in 2..Len(ScalingEvents) :
              /\ ScalingEvents[i - 1].snapshot <= ScalingEvents[i].snapshot
              /\ ToNumber(ScalingEvents[i - 1].timestamp) <= ToNumber(ScalingEvents[i].timestamp)

\* the later file holds the earlier snapshot, and the change is reported in
\* the order of the instants: from the count of file 2 to the count of file 1
C16_Witness ==
    /\ MetricsAnalysed
    /\ Len(Snapshots) = 2
    /\ Snapshots[1].file = 2 /\ Snapshots[2].file = 1
    /\ Snapshots[1].timestamp = Date(1) /\ Snapshots[2].timestamp = Date(2)
    /\ Len(ScalingEvents) = 1
    /\ ScalingEvents[1].from = ParsedFile(2).deployments[1].desired
    /\ ScalingEvents[1].to = ParsedFile(1).deployments[1].desired

\* ---- C17
\* the rows recorded so far, section by section
Recorded(st) ==
    [ nodes |-> st.snapshot.nodes, pods |-> st.snapshot.pods,
      deployments |-> st.snapshot.deployments,
      dbConnections |-> st.snapshot.dbConnections, podConfig |-> st.snapshot.podConfig ]
\* the lines of the file consumed so far
Consumed == SubSeq(metricsFiles[1].lines, 1, metricsRead)
\* the place of the last section header consumed
LastSectionAt ==
    CHOOSE k \in 0..metricsRead :
        /\ k > 0 => Consumed[k].kind = "section"
        /\ \A m \in (k + 1)..metricsRead : Consumed[m].kind # "section"
\* the first word of the column-header row of a section
ColumnsWord(section) ==
    CASE section \in { "nodes", "pods" } -> "NAME"
      [] section \in { "deployments", "podConfig" } -> "DEPLOYMENT"
      [] section = "dbConnections" -> "POD_NAME"
\* the column-header row of the active section has been consumed since the
\* section header
ColumnsConsumed ==
    \E k \in (LastSectionAt + 1)..metricsRead :
        /\ Consumed[k].kind = "text"
        /\ startsWith(Consumed[k].parts, ColumnsWord(Consumed[LastSectionAt].name))
InGatedSection == LastSectionAt > 0 /\ Consumed[LastSectionAt].name \in GatedSections
RowsWaitForColumns ==
    (InGatedSection /\ ~ColumnsConsumed) => Recorded(metricsParse') = Recorded(metricsParse)

\* C17: in every section with a column-header row, a line consumed after the
\* section header and before that row records nothing.
C17_RowsWaitForColumns == [][RowsWaitForColumns]_vars

\* ---- C18
DbParsed == dbDebugLog /\ dbData # NULL
\* the places of the date-stamp lines of the file
StampsAt == { k \in DOMAIN dbRead : dbRead[k].kind = "stamp" }
\* the place of the i-th date-stamp line
StampAt(i) == CHOOSE k \in StampsAt : Cardinality({ m \in StampsAt : m <= k }) = i
\* where the stretch of the i-th date-stamp line ends: the next one, or the
\* end of the file
NextStampAt(i) ==
    IF i < Cardinality(StampsAt) THEN StampAt(i + 1) ELSE Len(dbRead) + 1
ValidRow(line) == line.kind = "row" /\ Len(line.parts) >= 5
RowsOfStamp(i) == SelectSeq(SubSeq(dbRead, StampAt(i) + 1, NextStampAt(i) - 1), ValidRow)

\* C18: the snapshots returned are one per date-stamp line, in the order of
\* the file; the i-th has the timestamp read from the i-th date-stamp line
\* and, as connections, the rows of at least five fields between that line
\* and the next date-stamp line or the end of the file, in order.  Column
\* rows, short rows and rows before the first date stamp are in no snapshot.
C18_OneSnapshotPerStamp ==
    DbParsed =>
        /\ Len(dbData.snapshots) = Cardinality(StampsAt)
        /\ \A i \in DOMAIN dbData.snapshots :
            /\ dbData.snapshots[i].timestamp = parseDbTimestamp(dbRead[StampAt(i)].stamp)
            /\ dbData.snapshots[i].connections
                 = [ j \in DOMAIN RowsOfStamp(i) |-> makeConnection(RowsOfStamp(i)[j].parts) ]
            /\ dbData.snapshots[i].stats.total = Len(RowsOfStamp(i))

\* a file with a row before the first date stamp, then a date stamp, the
\* column row, a row, and a second date stamp
C18_Witness ==
    /\ DbParsed
    /\ Len(dbRead) = 5
    /\ ValidRow(dbRead[1])
    /\ StampsAt = { 2, 5 }
    /\ dbRead[3].kind = "columns"
    /\ ValidRow(dbRead[4])
    /\ Len(dbData.snapshots) = 2
    /\ Len(dbData.snapshots[1].connections) = 1
    /\ dbData.snapshots[2].connections = <<>>

\* ---- C19
DbAnalysed == dbDebugLog /\ dbAnalysis # NULL
LongRunningQueries == dbAnalysis.longRunningQueries
\* the connections of all snapshots, each with the timestamp of its snapshot
Connections ==
    UNION { { [ timestamp |-> dbData.snapshots[i].timestamp,
                conn |-> dbData.snapshots[i].connections[j] ] :
              j \in DOMAIN dbData.snapshots[i].connections } :
            i \in DOMAIN dbData.snapshots }
Idle(conn) == conn.command \in { Sleep, Daemon }
Qualifying(conn) == conn.time > LONG_RUNNING_SECS /\ ~Idle(conn)
\* the connections an entry of the list may have been made from
OriginsOf(q) ==
    { c \in Connections :
        /\ c.timestamp = q.timestamp /\ c.conn.id = q.id /\ c.conn.user = q.user
        /\ c.conn.db = q.db /\ c.conn.time = q.duration /\ c.conn.command = q.command }

\* C19: every entry of longRunningQueries is made from a connection whose
\* command is neither Sleep nor Daemon and whose elapsed time is above 60
\* seconds, and from no other connection.
C19_NoIdleOrShortQuery ==
    DbAnalysed =>
        \A k \in DOMAIN LongRunningQueries :
            /\ OriginsOf(LongRunningQueries[k]) # {}
            /\ \A c \in OriginsOf(LongRunningQueries[k]) : Qualifying(c.conn)

\* the scenario of the specification, with a connection of exactly 60
\* seconds: Query for 120 seconds is listed, Sleep for 120 seconds is not
C19_Witness ==
    /\ DbAnalysed
    /\ \E c \in Connections : c.conn.command = Sleep /\ c.conn.time = 120
    /\ \E c \in Connections : ~Idle(c.conn) /\ c.conn.time = LONG_RUNNING_SECS
    /\ Len(LongRunningQueries) = 1
    /\ LongRunningQueries[1].duration = 120
    /\ LongRunningQueries[1].command = Chars("Query")

\* ---- C20
\* the key of a list entry, and of the entry that a connection gives
KeyOfConnection(conn) == queryKey([db |-> conn.db, query |-> truncateQuery(conn.info)])
QualifyingWithKey(key) ==
    { c \in Connections : Qualifying(c.conn) /\ KeyOfConnection(c.conn) = key }
KeysKept == { queryKey(LongRunningQueries[k]) : k \in DOMAIN LongRunningQueries }
KeysLeftOut ==
    { KeyOfConnection(c.conn) : c \in { d \in Connections : Qualifying(d.conn) } } \ KeysKept

C20_WitnessSameKey ==
    /\ DbAnalysed
    /\ \E c, d \in Connections :
          /\ Qualifying(c.conn) /\ Qualifying(d.conn)
          /\ c.conn.id = 2 /\ d.conn.id = 1
          /\ KeyOfConnection(c.conn) = KeyOfConnection(d.conn)
    /\ Len(LongRunningQueries) = 1
    /\ LongRunningQueries[1].id = 1

\* ---- C21
IssuesDetected == issues # NULL
SeverityRank == [ critical |-> 0, high |-> 1, medium |-> 2, low |-> 3 ]
\* the rules in the order of the source
RuleTable ==
    << "redis_connection", "rasa_timeout", "oom_killed", "crash_restart", "scaling",
       "mysql_warning", "nlu_fallback", "http_5xx", "connection_reset", "slow_query",
       "kafka_error", "lock_failure", "tensorflow_warning", "high_cpu", "high_memory",
       "db_alert" >>
PlaceIn(list, x) == CHOOSE p \in DOMAIN list : list[p] = x
\* issue a was emitted before issue b
EmittedBefore(a, b) ==
    \/ PlaceIn(RuleTable, a.rule) < PlaceIn(RuleTable, b.rule)
    \/ /\ a.rule = b.rule /\ a.rule = "scaling"
       /\ \E p, q \in DOMAIN metricsAnalysis.scalingEvents :
            /\ p < q
            /\ metricsAnalysis.scalingEvents[p] = a.subject
            /\ metricsAnalysis.scalingEvents[q] = b.subject
    \/ /\ a.rule = b.rule /\ a.rule = "db_alert"
       /\ \E p, q \in DOMAIN dbAnalysis.alerts :
            p < q /\ dbAnalysis.alerts[p] = a.subject /\ dbAnalysis.alerts[q] = b.subject

\* C21: the issues are in ascending order of severity rank (critical, high,
\* medium, low), and two issues of the same severity are in the order in
\* which they were emitted: the order of the rules in the source and, for
\* one rule, the order of its scaling events or alerts; the ids, given in
\* the order of emission, say the same.
C21_BySeverityThenDetection ==
    IssuesDetected =>
        \A i, j \in DOMAIN issues :
            i < j =>
                /\ SeverityRank[issues[i].severity] <= SeverityRank[issues[j].severity]
                /\ issues[i].severity = issues[j].severity =>
                      /\ EmittedBefore(issues[i], issues[j])
                      /\ issues[i].id < issues[j].id

\* a run whose issues were emitted critical, high, high, low, high, medium
C21_Witness ==
    /\ IssuesDetected
    /\ Len(issues) >= 6
    /\ \E i, j, k \in DOMAIN issues :
          /\ i < j /\ j < k
          /\ issues[i].rule = "scaling" /\ issues[j].rule = "scaling"
          /\ issues[k].rule = "high_cpu"
          /\ issues[k].id > issues[Len(issues)].id
    /\ issues[1].rule = "oom_killed"
    /\ issues[Len(issues)].rule = "lock_failure"
    /\ \E m \in DOMAIN issues : issues[m].rule = "db_alert" /\ issues[m].severity = "medium"

\* ---- C22
ScaleUps == SelectSeq(metricsAnalysis.scalingEvents, LAMBDA e : e.to[1] > e.from[1])
ScaleDowns == SelectSeq(metricsAnalysis.scalingEvents, LAMBDA e : e.to[1] < e.from[1])
\* the Auto-Scaling issues in the order of their ids
ScalingIssues ==
    LET byId == [ n \in DOMAIN issues |-> issues[CHOOSE i \in DOMAIN issues : issues[i].id = n] ]
    IN SelectSeq(byId, LAMBDA x : x.rule = "scaling")

\* C22: the Auto-Scaling issues are, one for one and in order, the scaling
\* events whose `to` is above their `from`, each of severity high; a scaling
\* event whose `to` is below its `from` has no issue.
C22_OneHighIssuePerScaleUp ==
    IssuesDetected =>
        /\ Len(ScalingIssues) = Len(ScaleUps)
        /\ \A k \in DOMAIN ScalingIssues :
              /\ ScalingIssues[k].subject = ScaleUps[k]
              /\ ScalingIssues[k].severity = "high"
        /\ \A d \in DOMAIN ScaleDowns :
              \A i \in DOMAIN issues : issues[i].subject # ScaleDowns[d]

\* one deployment scaled up and the other scaled down in the same snapshot
C22_Witness ==
    /\ IssuesDetected
    /\ Len(ScaleUps) = 1
    /\ Len(ScaleDowns) = 1
    /\ Len(ScalingIssues) = 1
    /\ ScalingIssues[1].subject.deployment = Api
    /\ ScaleDowns[1].deployment = Web

\* ---- C23
Recommended == recommendations # NULL
PriorityOf == [ critical |-> 10, high |-> 7, medium |-> 4, low |-> 2 ]

\* C23: the recommendations are one per issue, each naming its issue's id
\* and carrying the priority of that issue's severity (critical 10, high 7,
\* medium 4, low 2), in descending order of priority; main hands over the
\* issues sorted by severity, and the recommendations are in the order of
\* those issues.
C23_OneRecommendationPerIssue ==
    Recommended =>
        /\ Len(recommendations) = Len(issues)
        /\ \A i \in DOMAIN issues :
              Cardinality({ r \in DOMAIN recommendations :
                              recommendations[r].relatedIssue = issues[i].id }) = 1
        /\ \A r \in DOMAIN recommendations :
              /\ recommendations[r].relatedIssue = issues[r].id
              /\ recommendations[r].priority = PriorityOf[issues[r].severity]
        /\ \A r, s \in DOMAIN recommendations :
              r < s => recommendations[r].priority >= recommendations[s].priority

\* issues of all four severities
C23_Witness ==
    /\ Recommended
    /\ { recommendations[r].priority : r \in DOMAIN recommendations } = { 10, 7, 4, 2 }
    /\ Len(recommendations) >= 6

\* ---- C24
GuaranteedMinimum(i) == Min2(Counts[i], Min2(MIN_PER_FILE_CAP, MAX_EVENTS \div fileCount))

\* C24: when the total exceeds MAX_EVENTS, the allocation of every file lies
\* between its guaranteed minimum min(ci, min(cap on the minimum,
\* floor(MAX_EVENTS / N))) and its number of events ci, the second pass
\* leaves no allocation below what the first pass gave, and the file
\* contributes as many events as its allocation.
C24_AllocationBetweenMinimumAndCount ==
    Sampled =>
        \A i \in DOMAIN fileResults :
            /\ GuaranteedMinimum(i) <= FinalAllocations[i]
            /\ FinalAllocations[i] <= Counts[i]
            /\ firstPass(Counts, fileCount)[i] = GuaranteedMinimum(i)
            /\ firstPass(Counts, fileCount)[i] <= FinalAllocations[i]
            /\ Contribution(i) = FinalAllocations[i]

\* a file raised above its minimum by the second pass and still sampled, next
\* to a file that stays at its minimum
C24_Witness ==
    /\ Sampled
    /\ \E i, j \in DOMAIN fileResults :
        /\ GuaranteedMinimum(i) < FinalAllocations[i]
        /\ FinalAllocations[i] < Counts[i]
        /\ FinalAllocations[j] = GuaranteedMinimum(j)
        /\ Contribution(j) < Counts[j]

\* ---- C25
SectionFields ==
    { "nodes", "pods", "deployments", "podStatus", "dbPoolSummary", "dbConnections", "podConfig" }
\* the section whose header was consumed last, "none" before the first
ActiveSection == IF LastSectionAt = 0 THEN "none" ELSE Consumed[LastSectionAt].name
\* parseMetricsFile consumes the next line of the file
SectionFrame ==
    metricsRead' = metricsRead + 1 =>
        LET line == metricsFiles[1].lines[metricsRead + 1] IN
        /\ \A f \in SectionFields :
              (line.kind # "text" \/ f # ActiveSection) =>
                  metricsParse'.snapshot[f] = metricsParse.snapshot[f]
        /\ (line.kind = "section" /\ line.name \in GatedSections) =>
              ~metricsParse'.headerParsed
        /\ ( /\ line.kind = "text"
             /\ ActiveSection \in { "nodes", "deployments", "dbConnections", "podConfig" }
             /\ ~ColumnsConsumed
             /\ ~startsWith(line.parts, ColumnsWord(ActiveSection)) ) =>
              /\ metricsParse'.snapshot = metricsParse.snapshot
              /\ ~metricsParse'.headerParsed

\* C25: a line of a metrics file changes at most the part of the snapshot
\* that belongs to the section whose header was consumed last, and nothing
\* before the first section header; a section header changes no part; after
\* the header of nodes, deployments, DB connections or pod config the
\* header-seen flag is false and stays false, with no row recorded, until
\* that section's own column-header row is consumed.
C25_RowsGoToTheActiveSection == [][SectionFrame]_vars

\* the column-header row of nodes consumed, then the deployments section
\* entered and a deployment row skipped
C25_Witness ==
    /\ metricsRead = 4
    /\ Consumed = << SectionLine("nodes"), NodesColumns,
                     SectionLine("deployments"), DeploymentRow(Api, 2) >>
    /\ ~metricsParse.headerParsed
    /\ metricsParse.snapshot.deployments = <<>>

\* ---- C26
\* every snapshot there is: those already closed, the one in progress, and
\* those of the result once parseDbDebug has returned
AllDbSnapshots ==
    dbParse.snapshots \o dbParse.currentSnapshot
        \o (IF dbData # NULL THEN dbData.snapshots ELSE <<>>)
RECURSIVE SumOver(_, _)
SumOver(counts, keys) ==
    IF keys = {} THEN 0
    ELSE LET k == CHOOSE x \in keys : TRUE IN counts[k] + SumOver(counts, keys \ { k })
LongestOf(connections) ==
    IF connections = <<>> THEN 0
    ELSE CHOOSE t \in { connections[j].time : j \in DOMAIN connections } :
            \A j \in DOMAIN connections : connections[j].time <= t
StatsConsistent(snap) ==
    /\ snap.stats.total = Len(snap.connections)
    /\ snap.stats.total = snap.stats.sleeping + snap.stats.active
    /\ snap.stats.sleeping
         = Cardinality({ j \in DOMAIN snap.connections : snap.connections[j].command = Sleep })
    /\ SumOver(snap.stats.byDatabase, DOMAIN snap.stats.byDatabase) <= snap.stats.total
    /\ snap.stats.longestConnection = LongestOf(snap.connections)

ReportedDropped ==
    IF "eventsDropped" \in DOMAIN combinedStats THEN combinedStats["eventsDropped"] ELSE 0
ParsedEvents == Concat([ i \in DOMAIN fileResults |-> fileResults[i].events ])

\* C27: the number of returned events plus stats.eventsDropped (0 when
\* absent) is the number of events parsed from all files; when that number
\* is at most MAX_EVENTS every parsed event is returned and
\* stats.eventsDropped is not set.
C27_EventsConserved ==
    Done =>
        /\ Len(allEvents) + ReportedDropped = Len(ParsedEvents)
        /\ Len(ParsedEvents) = totalEventCount
        /\ totalEventCount <= MAX_EVENTS =>
              /\ \A k \in DOMAIN ParsedEvents : InOutput(ParsedEvents[k])
              /\ Len(allEvents) = Len(ParsedEvents)
              /\ "eventsDropped" \notin DOMAIN combinedStats

\* a run that drops more events than the total exceeds the cap by
C27_Witness ==
    /\ Sampled
    /\ ReportedDropped > totalEventCount - MAX_EVENTS
    /\ fileCount >= 2

\* a run of two files that returns every event
C27_WitnessAllKept ==
    /\ Done /\ fileCount >= 2
    /\ totalEventCount = MAX_EVENTS
    /\ "eventsDropped" \notin DOMAIN combinedStats

\* the indices Phase 2 selects in a file of n events sampled down to b
SelectedIndex(n, b) == [j \in 0..(b - 1) |-> sampleIndex(j, n, b)]
\* the returned events that come from file i
ReturnedOf(i) == {allEvents[k] : k \in {k \in DOMAIN allEvents : allEvents[k].file = i}}

\* C28: when a file with n events is sampled down to b < n, the selected
\* indices are strictly increasing and all lie in 0..n-1, and the events
\* returned from the file are the b distinct events at those indices (no
\* event is taken twice).
C28_SampleIndicesIncrease ==
    Sampled =>
        \A i \in DOMAIN fileResults :
            LET events == fileResults[i].events
                n == Len(events)
                b == Min2(FinalAllocations[i], n)
                index == SelectedIndex(n, b)
            IN b < n =>
                /\ \A j \in DOMAIN index : 0 <= index[j] /\ index[j] <= n - 1
                /\ \A j, k \in DOMAIN index : j < k => index[j] < index[k]
                /\ \A j, k \in DOMAIN index :
                       j < k => events[index[j] + 1].lineNo < events[index[k] + 1].lineNo
                /\ ReturnedOf(i) = {events[index[j] + 1] : j \in DOMAIN index}
                /\ Cardinality(ReturnedOf(i)) = b
                /\ Contribution(i) = b

\* a file sampled down to at least two events, with an event skipped between
\* the first two selected ones
C28_Witness ==
    /\ Sampled
    /\ \E i \in DOMAIN fileResults :
           LET n == Len(fileResults[i].events)
               b == Min2(FinalAllocations[i], n)
           IN /\ 2 <= b /\ b < n
              /\ sampleIndex(1, n, b) >= 2
              /\ Contribution(i) = b

CategoryNames == { ERROR_PATTERNS[i] : i \in DOMAIN ERROR_PATTERNS } \cup { "uncategorized" }
\* the count of a category in the result of classifyErrors (the entry the
\* issue rules look up), 0 when the result has no entry for it
ClassifiedCount(c) ==
    LET entry == catMapAt(errorAnalysis.categories, c) IN
    IF entry = NULL THEN 0 ELSE entry.count
\* combinedStats.byCategory[c] || 0
StatCount(c) ==
    IF c \in DOMAIN combinedStats.byCategory THEN combinedStats.byCategory[c] ELSE 0
\* the returned events that carry category c
RetainedWith(c) ==
    { k \in DOMAIN allEvents :
        \E i \in DOMAIN allEvents[k].categories : allEvents[k].categories[i] = c }

\* C29: for every category, the count classifyErrors computes over the
\* returned events is the number of returned events of the category and is
\* at most combinedStats.byCategory of it, with equality for every category
\* when no event was dropped.
C29_ClassifiedWithinStats ==
    errorAnalysis # NULL =>
        \A c \in CategoryNames :
            /\ ClassifiedCount(c) = Cardinality(RetainedWith(c))
            /\ ClassifiedCount(c) <= StatCount(c)
            /\ eventsDropped = 0 => ClassifiedCount(c) = StatCount(c)

\* events were dropped, and a category is classified with fewer events than
\* the statistics count for it
C29_Witness ==
    /\ errorAnalysis # NULL
    /\ eventsDropped > 0
    /\ \E c \in CategoryNames : 0 < ClassifiedCount(c) /\ ClassifiedCount(c) < StatCount(c)

\* nothing was dropped and the classified events include a stack frame
C29_WitnessNothingDropped ==
    /\ errorAnalysis # NULL
    /\ eventsDropped = 0
    /\ ClassifiedCount("stack_trace") > 0
    /\ ClassifiedCount("oom_killed") > 0

PodParsed == podSummary # NULL
\* the lines of the pod log that are not blank
NonBlankLines == Cardinality({ k \in DOMAIN podRead : ~podRead[k].blank })
RECURSIVE SumOfCounts(_)
SumOfCounts(obj) ==
    IF DOMAIN obj = {} THEN 0
    ELSE LET k == CHOOSE k \in DOMAIN obj : TRUE
         IN obj[k] + SumOfCounts([j \in DOMAIN obj \ { k } |-> obj[j]])
RequestsWithinLines ==
    /\ podSummary.apiRequests <= NonBlankLines
    /\ SumOfCounts(podSummary.httpCodes) <= NonBlankLines
    /\ \A b \in DOMAIN podSummary.timeBucketsArray :
           podSummary.timeBucketsArray[b].a <= podSummary.timeBucketsArray[b].l

\* C30 (as claimed): parsePodLogs counts each log line at most once as an
\* HTTP request: after parsing a file, apiRequests <= the number of
\* non-blank lines, the sum of the httpCodes counts <= the number of
\* non-blank lines, and in every time bucket apiReqs <= lines.
C30_EachLineCountedOnce == PodParsed => RequestsWithinLines

\* The same bounds for a pod log without uvicorn access-log lines, and twice
\* the number of lines as the bound for every pod log.
NoUvicornLine == \A k \in DOMAIN podRead : ~podRead[k].uvicorn
RequestsWithinLinesElsewhere ==
    PodParsed =>
        /\ NoUvicornLine => RequestsWithinLines
        /\ podSummary.apiRequests <= 2 * NonBlankLines
        /\ SumOfCounts(podSummary.httpCodes) <= 2 * NonBlankLines
        /\ \A b \in DOMAIN podSummary.timeBucketsArray :
               podSummary.timeBucketsArray[b].a <= 2 * podSummary.timeBucketsArray[b].l

====
